---- MODULE Spec2Model ----
(***************************************************************************)
(* Model of the rift_backend gateway: the platform resolver of the         *)
(* summoner-info and ranked-stats endpoints and the per-match aggregation  *)
(* loops of the performance, summoner-spell and rune endpoints.            *)
(*                                                                         *)
(* Strings on which the code computes (lower(), sorted(), f-strings) are   *)
(* sequences of character codes, so that str.lower and the ordering of     *)
(* str are computed as Python computes them.  A field xyz of one of the    *)
(* ...Text records is the Python string "xyz".                             *)
(***************************************************************************)
EXTENDS Integers, Sequences, FiniteSets, TLC

\* ------------------------------------------------------------------ bounds
\* Each region's platform list is cut to its first MaxPlatforms entries.
MaxPlatforms == 3
\* Upstream returns at most MaxMatches match ids.
MaxMatches == 2
\* A match holds at most MaxOthers participants besides the requested player.
MaxOthers == 2
\* The longest champion list a scoring request is sent with
MaxTeamLen == 6
\* The most matches of one player upstream holds in the performance-trend runs
MaxTrendMatches == 6

\* ----------------------------------------------------------------- strings
\* The routing values and region keys of the requests and validators
RoutingText ==
    [americas |-> <<97, 109, 101, 114, 105, 99, 97, 115>>,
     europe |-> <<101, 117, 114, 111, 112, 101>>,
     asia |-> <<97, 115, 105, 97>>,
     sea |-> <<115, 101, 97>>,
     regional_routings |-> <<114, 101, 103, 105, 111, 110, 97, 108, 95, 114, 111, 117, 116, 105, 110, 103, 115>>,
     platform_regions |-> <<112, 108, 97, 116, 102, 111, 114, 109, 95, 114, 101, 103, 105, 111, 110, 115>>,
     Europe |-> <<69, 117, 114, 111, 112, 101>>,
     ASIA |-> <<65, 83, 73, 65>>]

\* The platform names of the region data
PlatformText ==
    [na1 |-> <<110, 97, 49>>,
     br1 |-> <<98, 114, 49>>,
     la1 |-> <<108, 97, 49>>,
     la2 |-> <<108, 97, 50>>,
     oce1 |-> <<111, 99, 101, 49>>,
     EUW1 |-> <<69, 85, 87, 49>>,
     EUN1 |-> <<69, 85, 78, 49>>,
     TR1 |-> <<84, 82, 49>>,
     RU |-> <<82, 85>>,
     KR |-> <<75, 82>>,
     JP1 |-> <<74, 80, 49>>,
     OC1 |-> <<79, 67, 49>>,
     PH2 |-> <<80, 72, 50>>,
     SG2 |-> <<83, 71, 50>>]

\* A puuid, a summoner id, and the puuid of another participant
IdText ==
    [P1 |-> <<80, 49>>,
     S1 |-> <<83, 49>>,
     Q1 |-> <<81, 49>>]

\* The names of SUMMONER_SPELLS and the prefix of the label of an unknown id
SpellText ==
    [Cleanse |-> <<67, 108, 101, 97, 110, 115, 101>>,
     Exhaust |-> <<69, 120, 104, 97, 117, 115, 116>>,
     Flash |-> <<70, 108, 97, 115, 104>>,
     Ghost |-> <<71, 104, 111, 115, 116>>,
     Heal |-> <<72, 101, 97, 108>>,
     Smite |-> <<83, 109, 105, 116, 101>>,
     Teleport |-> <<84, 101, 108, 101, 112, 111, 114, 116>>,
     Clarity |-> <<67, 108, 97, 114, 105, 116, 121>>,
     Ignite |-> <<73, 103, 110, 105, 116, 101>>,
     Barrier |-> <<66, 97, 114, 114, 105, 101, 114>>,
     Mark_Dash |-> <<77, 97, 114, 107, 47, 68, 97, 115, 104>>,
     Unknown_ |-> <<85, 110, 107, 110, 111, 119, 110, 95>>]

\* Champion names and positions of participant rows, and a champion filter
RowText ==
    [Ahri |-> <<65, 104, 114, 105>>,
     Lux |-> <<76, 117, 120>>,
     AHRI |-> <<65, 72, 82, 73>>,
     MIDDLE |-> <<77, 73, 68, 68, 76, 69>>,
     UTILITY |-> <<85, 84, 73, 76, 73, 84, 89>>]

\* The names of RUNE_TREES
RuneText ==
    [Precision |-> <<80, 114, 101, 99, 105, 115, 105, 111, 110>>,
     Domination |-> <<68, 111, 109, 105, 110, 97, 116, 105, 111, 110>>,
     Sorcery |-> <<83, 111, 114, 99, 101, 114, 121>>,
     Resolve |-> <<82, 101, 115, 111, 108, 118, 101>>,
     Inspiration |-> <<73, 110, 115, 112, 105, 114, 97, 116, 105, 111, 110>>]

\* str.lower() on ASCII text
Lower(s) == [i \in DOMAIN s |-> IF s[i] \in 65..90 THEN s[i] + 32 ELSE s[i]]

\* Python's ordering of str: lexicographic on code points, a proper prefix first.
RECURSIVE StrLess(_, _)
StrLess(a, b) ==
    IF b = <<>> THEN FALSE
    ELSE IF a = <<>> THEN TRUE
    ELSE IF Head(a) # Head(b) THEN Head(a) < Head(b)
    ELSE StrLess(Tail(a), Tail(b))

\* str(n) for a natural number n, as f"{n}" formats it
RECURSIVE StrOfNat(_)
StrOfNat(n) == IF n < 10 THEN <<48 + n>> ELSE StrOfNat(n \div 10) \o <<48 + (n % 10)>>

Min(a, b) == IF a < b THEN a ELSE b
Max(a, b) == IF a > b THEN a ELSE b

\* ------------------------------------------------------------------- state
VARIABLES
    endpoint,             \* the handler serving the request
    pc,                   \* position of the handler
    response,             \* the HTTP response of the request (status 0: none yet)
    region,               \* query parameter region
    region_lower,         \* region.lower()
    summoner_id,          \* query parameter summoner_id (<<>>: None)
    puuid,                \* query parameter puuid (<<>>: None)
    platforms,            \* REGION_DATA[region_lower]["platforms"]
    platform_idx,         \* index of the next platform of the for loop
    last_error,           \* last_error of the probing loop
    summoner_data,        \* summoner_data of get_summoner_info
    ranked_data,          \* ranked_data of get_ranked_stats
    successful_platform,  \* successful_platform (<<>>: None)
    upstream_log          \* the upstream requests issued, in order, with their outcome

resolverVars == <<region, region_lower, summoner_id, puuid, platforms,
                  platform_idx, last_error, summoner_data, ranked_data,
                  successful_platform, upstream_log>>

VARIABLES
    match_count,          \* query parameter match_count, capped by the handler
    champion_name,        \* query parameter champion_name (<<>>: None)
    match_ids,            \* the match ids upstream returned
    match_idx,            \* index of the next match id of the for loop
    match_status,         \* outcome of the last match-detail fetch
    player_data,          \* player_data of the last iteration (<<>>: None, else <<row>>)
    match_log,            \* the match-detail fetches issued, in order, with what came back
    result,               \* the report returned with status 200
    \* get_player_performance
    team_kills, total_games, wins, champions_played, roles_played,
    kda_values, kill_participation, performance_data,
    \* get_summoner_spells_analysis
    spell_combinations, spell_wins, spell_games, champion_spells, role_spells,
    \* get_runes_masteries
    rune_data, primary_trees, secondary_trees, keystone_runes, champion_runes,
    champion_order, keystone_id

fetchVars == <<match_count, champion_name, match_ids, match_idx, match_status,
               player_data, match_log, result>>
perfVars == <<team_kills, total_games, wins, champions_played, roles_played,
              kda_values, kill_participation, performance_data>>
spellVars == <<spell_combinations, spell_wins, spell_games, champion_spells, role_spells>>
runeVars == <<rune_data, primary_trees, secondary_trees, keystone_runes, champion_runes,
              champion_order, keystone_id>>
aggVars == <<fetchVars, perfVars, spellVars, runeVars>>

VARIABLES
    \* get_team_composition
    champions,            \* body parameter champions
    enemy_champions,      \* body parameter enemy_champions (<<>>: None, else <<list>>)
    \* get_match_outcome
    blue_team,            \* body parameter blue_team
    red_team,             \* body parameter red_team
    game_mode,            \* body parameter game_mode
    average_rank,         \* body parameter average_rank
    blue_analysis,        \* analyze_team(blue_team) (<<>> before)
    red_analysis,         \* analyze_team(red_team) (<<>> before)
    blue_score,           \* blue_score, in 1/ScoreUnit
    red_score,            \* red_score, in 1/ScoreUnit
    \* both
    champions_data,       \* the catalog entries upstream answered with (<<>> before)
    lookups               \* the names get_champion_info / get_champion_data were called
                          \* with, in order

scoreVars == <<champions, enemy_champions, blue_team, red_team, game_mode, average_rank,
               blue_analysis, red_analysis, blue_score, red_score, champions_data,
               lookups>>

VARIABLES
    \* get_champions
    detailed,             \* query parameter detailed
    found_champion,       \* found_champion (<<>>: None, else <<entry>>)
    \* get_match_participants_full_info
    num_participants,     \* body parameter num_participants
    simplified,           \* body parameter simplified
    selected_participants \* selected_participants (<<>> before)

singleVars == <<detailed, found_champion, num_participants, simplified,
                selected_participants>>

vars == <<endpoint, pc, response, resolverVars, aggVars, scoreVars, singleVars>>

\* ------------------------------------------------- region configuration data
\* data_loader["regions"]["regional_routings"], the list validate_region_routing reads
RegionalRoutings == <<RoutingText.americas, RoutingText.europe, RoutingText.asia, RoutingText.sea>>

\* data_loader["regions"][routing]["platforms"], the list the resolvers iterate
RegionPlatforms(routing) ==
    CASE routing = RoutingText.americas -> <<PlatformText.na1, PlatformText.br1, PlatformText.la1, PlatformText.la2, PlatformText.oce1>>
      [] routing = RoutingText.europe   -> <<PlatformText.EUW1, PlatformText.EUN1, PlatformText.TR1, PlatformText.RU>>
      [] routing = RoutingText.asia     -> <<PlatformText.KR, PlatformText.JP1>>
      [] routing = RoutingText.sea      -> <<PlatformText.OC1, PlatformText.PH2, PlatformText.SG2>>

\* The top-level keys of REGION_DATA = data_loader["regions"]: the routing values the
\* resolvers index with ["platforms"], and the two lists the validators read.
RegionDataKeys ==
    {RegionalRoutings[i] : i \in DOMAIN RegionalRoutings}
        \cup {RoutingText.regional_routings, RoutingText.platform_regions}

\* Whether REGION_DATA[key]["platforms"] evaluates: the two lists have no such entry
\* (indexing a list with a str raises TypeError).
HasPlatforms(key) == key \in {RegionalRoutings[i] : i \in DOMAIN RegionalRoutings}

Platforms(key) ==
    LET full == RegionPlatforms(key) IN SubSeq(full, 1, Min(Len(full), MaxPlatforms))

\* ------------------------------------------------------------------ values
None == <<>>
NoError == [platform |-> None, kind |-> "none"]
NoResponse == [status |-> 0, kind |-> "pending", platform |-> None, error |-> NoError]

HttpError(code, kind) == [status |-> code, kind |-> kind, platform |-> None, error |-> NoError]

\* The region strings requests are sent with
RegionInputs == {RoutingText.americas, RoutingText.Europe, RoutingText.ASIA, RoutingText.sea, PlatformText.na1, RoutingText.regional_routings}


\* Outcomes of one platform probe: 200 with a body, 200 with an empty body ({} or []),
\* 404, another status, or requests.RequestException
ProbeOutcomes == {"ok", "ok_empty", "not_found", "error", "conn_error"}

\* Outcomes of one summoner-by-puuid probe of get_summoner_id_from_puuid
HelperOutcomes == {"ok_id", "ok_no_id", "not_found", "error", "conn_error"}

Logged(host, resource, outcome) ==
    Append(upstream_log, [host |-> host, resource |-> resource, outcome |-> outcome])

\* An empty Counter() or dict
EmptyMap == <<>>
\* keystone_id before its first assignment
Unbound == -1

\* The aggregation handlers' variables while another handler serves the request
AggIdle ==
    /\ match_count = 0 /\ champion_name = None
    /\ match_ids = <<>> /\ match_idx = 1 /\ match_status = "none"
    /\ player_data = <<>> /\ match_log = <<>> /\ result = EmptyMap
    /\ team_kills = 0 /\ total_games = 0 /\ wins = 0
    /\ champions_played = EmptyMap /\ roles_played = EmptyMap
    /\ kda_values = <<>> /\ kill_participation = <<>> /\ performance_data = <<>>
    /\ spell_combinations = EmptyMap /\ spell_wins = EmptyMap /\ spell_games = EmptyMap
    /\ champion_spells = EmptyMap /\ role_spells = EmptyMap
    /\ rune_data = <<>> /\ primary_trees = EmptyMap /\ secondary_trees = EmptyMap
    /\ keystone_runes = EmptyMap /\ champion_runes = EmptyMap
    /\ champion_order = <<>> /\ keystone_id = Unbound

\* The variables of the single-resource handlers while another handler serves the
\* request
SingleIdle ==
    /\ detailed = FALSE /\ found_champion = <<>>
    /\ num_participants = -1 /\ simplified = FALSE /\ selected_participants = <<>>

\* The scoring handlers' variables while another handler serves the request
ScoreIdle ==
    /\ champions = <<>> /\ enemy_champions = None
    /\ blue_team = <<>> /\ red_team = <<>>
    /\ game_mode = "CLASSIC" /\ average_rank = <<>>
    /\ blue_analysis = <<>> /\ red_analysis = <<>>
    /\ blue_score = 0 /\ red_score = 0
    /\ champions_data = <<>> /\ lookups = <<>>

\* ------------------------------------------------- get_summoner_info handler
\* Faulty variant of RecordedError: the first error is kept, later ones are dropped.
RecordedErrorFirst(platform_lower, outcome) ==
    IF last_error.kind # "none" THEN last_error
    ELSE CASE outcome = "error"      -> [platform |-> platform_lower, kind |-> "status"]
           [] outcome = "conn_error" -> [platform |-> platform_lower, kind |-> "connection"]
           [] OTHER                  -> last_error

\* last_error after a probe of platform_lower that ended `outcome`
RecordedError(platform_lower, outcome) ==
    CASE outcome = "error"      -> [platform |-> platform_lower, kind |-> "status"]
      [] outcome = "conn_error" -> [platform |-> platform_lower, kind |-> "connection"]
      [] OTHER                  -> last_error

\* Status 200 of a probe
IsOk(outcome) == outcome \in {"ok", "ok_empty"}

\* Faulty variant of BreaksLoop: the break is missing.
BreaksLoopNever(outcome) == FALSE

\* Whether the for loop stops after this probe: the break of the status-200 branch
BreaksLoop(outcome) == IsOk(outcome)

\* Lines 68-79: lower the region, validate it, read the platform list.
SummonerStart ==
    /\ endpoint = "summoner_info" /\ pc = "start"
    /\ region_lower' = Lower(region)
    /\ IF Lower(region) \notin RegionDataKeys
         THEN /\ response' = HttpError(400, "InvalidRegion")
              /\ pc' = "done"
              /\ UNCHANGED platforms
         ELSE IF ~HasPlatforms(Lower(region))
         THEN /\ response' = HttpError(500, "UnhandledException")
              /\ pc' = "done"
              /\ UNCHANGED platforms
         ELSE /\ platforms' = Platforms(Lower(region))
              /\ pc' = IF Platforms(Lower(region)) = <<>> THEN "finish" ELSE "probe"
              /\ UNCHANGED response
    /\ UNCHANGED <<singleVars, scoreVars, aggVars, endpoint, region, summoner_id, puuid, platform_idx,
                   last_error, summoner_data, ranked_data, successful_platform,
                   upstream_log>>

\* Lines 86-107: one iteration of the for loop over the platforms.
SummonerProbe ==
    /\ endpoint = "summoner_info" /\ pc = "probe"
    /\ platform_idx <= Len(platforms)
    /\ \E outcome \in ProbeOutcomes :
         LET platform_lower == Lower(platforms[platform_idx]) IN
         /\ upstream_log' = Logged(platform_lower, "summoner_by_puuid", outcome)
         /\ last_error' = RecordedError(platform_lower, outcome)
         /\ summoner_data' = (CASE outcome = "ok"       -> "dto"
                                 [] outcome = "ok_empty" -> "empty"
                                 [] OTHER                -> summoner_data)
         /\ successful_platform' =
                (IF IsOk(outcome) THEN platform_lower ELSE successful_platform)
         /\ IF BreaksLoop(outcome)
              THEN pc' = "finish" /\ UNCHANGED platform_idx
              ELSE /\ platform_idx' = platform_idx + 1
                   /\ pc' = IF platform_idx + 1 > Len(platforms) THEN "finish" ELSE "probe"
    /\ UNCHANGED <<singleVars, scoreVars, aggVars, endpoint, response, region, region_lower, summoner_id, puuid,
                   platforms, ranked_data>>

\* Lines 110-132: `if not summoner_data` (None or an empty body), else the result.
SummonerFinish ==
    /\ endpoint = "summoner_info" /\ pc = "finish"
    /\ response' =
         IF summoner_data \in {"None", "empty"}
           THEN IF last_error.kind # "none"
                  THEN [status |-> 500, kind |-> "UpstreamUnavailable",
                        platform |-> None, error |-> last_error]
                  ELSE HttpError(404, "ResourceNotFound")
           ELSE [status |-> 200, kind |-> "ok",
                 platform |-> successful_platform, error |-> NoError]
    /\ pc' = "done"
    /\ UNCHANGED <<singleVars, scoreVars, aggVars, endpoint, resolverVars>>

\* --------------------------------------------------- get_ranked_stats handler
\* Lines 112-140: input validation, region validation, the platform list.
RankedStart ==
    /\ endpoint = "ranked_stats" /\ pc = "start"
    /\ region_lower' = Lower(region)
    /\ IF (summoner_id = None /\ puuid = None) \/ (summoner_id # None /\ puuid # None)
         THEN /\ response' = HttpError(400, "InvalidInput")
              /\ pc' = "done"
              /\ UNCHANGED platforms
         ELSE IF Lower(region) \notin RegionDataKeys
         THEN /\ response' = HttpError(400, "InvalidRegion")
              /\ pc' = "done"
              /\ UNCHANGED platforms
         ELSE IF ~HasPlatforms(Lower(region))
         THEN /\ response' = HttpError(500, "UnhandledException")
              /\ pc' = "done"
              /\ UNCHANGED platforms
         ELSE /\ platforms' = Platforms(Lower(region))
              /\ pc' = IF Platforms(Lower(region)) = <<>>
                         THEN (IF puuid # None THEN "helper_end" ELSE "finish")
                         ELSE (IF puuid # None THEN "helper" ELSE "probe")
              /\ UNCHANGED response
    /\ UNCHANGED <<singleVars, scoreVars, aggVars, endpoint, region, summoner_id, puuid, platform_idx,
                   last_error, summoner_data, ranked_data, successful_platform,
                   upstream_log>>

\* get_summoner_id_from_puuid, lines 53-73: one iteration of its for loop.  A 200
\* whose body has no id falls through to the next platform.
HelperProbe ==
    /\ endpoint = "ranked_stats" /\ pc = "helper"
    /\ platform_idx <= Len(platforms)
    /\ \E outcome \in HelperOutcomes :
         LET platform_lower == Lower(platforms[platform_idx]) IN
         /\ upstream_log' = Logged(platform_lower, "summoner_by_puuid", outcome)
         /\ IF outcome = "ok_id"
              THEN /\ summoner_id' = IdText.S1
                   /\ platform_idx' = 1
                   /\ pc' = "probe"
              ELSE /\ platform_idx' = platform_idx + 1
                   /\ pc' = IF platform_idx + 1 > Len(platforms)
                              THEN "helper_end" ELSE "helper"
                   /\ UNCHANGED summoner_id
    /\ UNCHANGED <<singleVars, scoreVars, aggVars, endpoint, response, region, region_lower, puuid,
                   platforms, last_error, summoner_data, ranked_data,
                   successful_platform>>

\* get_summoner_id_from_puuid, lines 75-79: no platform returned an id.
HelperExhausted ==
    /\ endpoint = "ranked_stats" /\ pc = "helper_end"
    /\ response' = HttpError(404, "ResourceNotFound")
    /\ pc' = "done"
    /\ UNCHANGED <<singleVars, scoreVars, aggVars, endpoint, resolverVars>>

\* Lines 148-169: one iteration of the league-entries for loop.
RankedProbe ==
    /\ endpoint = "ranked_stats" /\ pc = "probe"
    /\ platform_idx <= Len(platforms)
    /\ \E outcome \in ProbeOutcomes :
         LET platform_lower == Lower(platforms[platform_idx]) IN
         /\ upstream_log' = Logged(platform_lower, "league_entries", outcome)
         /\ last_error' = RecordedError(platform_lower, outcome)
         /\ ranked_data' = (CASE outcome = "ok"       -> "entries"
                               [] outcome = "ok_empty" -> "empty"
                               [] OTHER                -> ranked_data)
         /\ successful_platform' =
                (IF IsOk(outcome) THEN platform_lower ELSE successful_platform)
         /\ IF BreaksLoop(outcome)
              THEN pc' = "finish" /\ UNCHANGED platform_idx
              ELSE /\ platform_idx' = platform_idx + 1
                   /\ pc' = IF platform_idx + 1 > Len(platforms) THEN "finish" ELSE "probe"
    /\ UNCHANGED <<singleVars, scoreVars, aggVars, endpoint, response, region, region_lower, summoner_id, puuid,
                   platforms, summoner_data>>

\* Faulty variant of InputMethod: decided by summoner_id, which the handler has
\* rebound to the resolved id by then.
InputMethodBySummonerId(puuid_arg, summoner_id_now) ==
    IF summoner_id_now # None THEN "summoner_id" ELSE "puuid"

\* Line 190: "puuid" if puuid else "summoner_id"
InputMethod(puuid_arg, summoner_id_now) ==
    IF puuid_arg # None THEN "puuid" ELSE "summoner_id"

\* Lines 172-219: `if ranked_data is None` (an empty list is a result), else the result.
RankedFinish ==
    /\ endpoint = "ranked_stats" /\ pc = "finish"
    /\ response' =
         IF ranked_data = "None"
           THEN IF last_error.kind # "none"
                  THEN [status |-> 500, kind |-> "UpstreamUnavailable",
                        platform |-> None, error |-> last_error]
                  ELSE HttpError(404, "ResourceNotFound")
           ELSE [status |-> 200, kind |-> "ok",
                 platform |-> successful_platform, error |-> NoError,
                 input_method |-> InputMethod(puuid, summoner_id)]
    /\ pc' = "done"
    /\ UNCHANGED <<singleVars, scoreVars, aggVars, endpoint, resolverVars>>

\* ------------------------------------------------ get_champion_mastery handler
\* Outcomes of one summoner-by-puuid probe of get_champion_mastery; "forbidden" and
\* "error" are answers with status 403 and 500.
MasteryProbeOutcomes == HelperOutcomes \cup {"forbidden"}

\* Outcomes of the champion-mastery fetch
MasteryFetchOutcomes == {"ok", "not_found", "forbidden", "error", "conn_error"}

\* e.response.status_code of the HTTPStatusError that raise_for_status raises
UpstreamStatus(outcome) ==
    CASE outcome = "not_found" -> 404
      [] outcome = "forbidden" -> 403
      [] OTHER                 -> 500

\* Lines 153-158: the handlers of the outer try
MasteryFailure(outcome) ==
    IF outcome = "conn_error"
      THEN HttpError(500, "UpstreamUnavailable")
      ELSE HttpError(UpstreamStatus(outcome), "UpstreamStatus")

\* Lines 63-75: lower the region, validate it, read the platform list.
MasteryStart ==
    /\ endpoint = "champion_mastery" /\ pc = "start"
    /\ region_lower' = Lower(region)
    /\ IF Lower(region) \notin RegionDataKeys
         THEN /\ response' = HttpError(400, "InvalidRegion")
              /\ pc' = "done"
              /\ UNCHANGED platforms
         ELSE IF ~HasPlatforms(Lower(region))
         THEN /\ response' = HttpError(500, "UnhandledException")
              /\ pc' = "done"
              /\ UNCHANGED platforms
         ELSE /\ platforms' = Platforms(Lower(region))
              /\ pc' = IF Platforms(Lower(region)) = <<>> THEN "fetch" ELSE "probe"
              /\ UNCHANGED response
    /\ UNCHANGED <<singleVars, scoreVars, aggVars, endpoint, region, summoner_id, puuid, platform_idx,
                   last_error, summoner_data, ranked_data, successful_platform,
                   upstream_log>>

\* Lines 84-107: one iteration of the for loop.  A 200 sets summoner_id (None when
\* the body has no id) and platform_region and breaks; a 404 continues; any other
\* status is raised by raise_for_status, re-raised by the inner handler and ends
\* the request in the outer one, as a connection error does.
MasteryProbe ==
    /\ endpoint = "champion_mastery" /\ pc = "probe"
    /\ platform_idx <= Len(platforms)
    /\ \E outcome \in MasteryProbeOutcomes :
         LET platform_lower == Lower(platforms[platform_idx]) IN
         /\ upstream_log' = Logged(platform_lower, "summoner_by_puuid", outcome)
         /\ CASE outcome \in {"ok_id", "ok_no_id"} ->
                   /\ summoner_id' = (IF outcome = "ok_id" THEN IdText.S1 ELSE None)
                   /\ successful_platform' = platform_lower
                   /\ pc' = "fetch"
                   /\ UNCHANGED <<platform_idx, response>>
              [] outcome = "not_found" ->
                   /\ platform_idx' = platform_idx + 1
                   /\ pc' = IF platform_idx + 1 > Len(platforms) THEN "fetch" ELSE "probe"
                   /\ UNCHANGED <<summoner_id, successful_platform, response>>
              [] OTHER ->
                   /\ response' = MasteryFailure(outcome)
                   /\ pc' = "done"
                   /\ UNCHANGED <<summoner_id, successful_platform, platform_idx>>
    /\ UNCHANGED <<singleVars, scoreVars, aggVars, endpoint, region, region_lower, puuid,
                   platforms, last_error, summoner_data, ranked_data>>

\* Lines 109-158: 404 when no platform gave an id, else the mastery fetch on the
\* platform found (total_score, champion_id and top only choose its URL) and the
\* result, or the failure of the fetch.
MasteryFetch ==
    /\ endpoint = "champion_mastery" /\ pc = "fetch"
    /\ IF summoner_id = None \/ successful_platform = None
         THEN /\ response' = HttpError(404, "ResourceNotFound")
              /\ UNCHANGED upstream_log
         ELSE \E outcome \in MasteryFetchOutcomes :
                /\ upstream_log' = Logged(successful_platform, "champion_mastery", outcome)
                /\ response' = IF outcome = "ok"
                                 THEN [status |-> 200, kind |-> "ok",
                                       platform |-> successful_platform, error |-> NoError]
                                 ELSE MasteryFailure(outcome)
    /\ pc' = "done"
    /\ UNCHANGED <<singleVars, scoreVars, aggVars, endpoint, region, region_lower, summoner_id, puuid,
                   platforms, platform_idx, last_error, summoner_data, ranked_data,
                   successful_platform>>

\* ------------------------------------------------------ resolver specification
InitResolver ==
    /\ endpoint \in {"summoner_info", "ranked_stats", "champion_mastery"}
    /\ pc = "start"
    /\ response = NoResponse
    /\ region \in RegionInputs
    /\ region_lower = None
    /\ puuid \in (IF endpoint = "ranked_stats" THEN {None, IdText.P1} ELSE {IdText.P1})
    /\ summoner_id \in (IF endpoint = "ranked_stats" THEN {None, IdText.S1} ELSE {None})
    /\ platforms = <<>> /\ platform_idx = 1
    /\ last_error = NoError
    /\ summoner_data = "None" /\ ranked_data = "None"
    /\ successful_platform = None
    /\ upstream_log = <<>>
    /\ AggIdle
    /\ ScoreIdle
    /\ SingleIdle

NextResolver ==
    \/ SummonerStart
    \/ SummonerProbe
    \/ SummonerFinish
    \/ RankedStart
    \/ HelperProbe
    \/ HelperExhausted
    \/ RankedProbe
    \/ RankedFinish
    \/ MasteryStart
    \/ MasteryProbe
    \/ MasteryFetch

SpecResolver == InitResolver /\ [][NextResolver]_vars

\* ----------------------------------------------------------- resolver claims
\* The probes of the endpoint's own for loop (the league-entries loop of ranked stats)
MainResource == IF endpoint = "ranked_stats" THEN "league_entries" ELSE "summoner_by_puuid"
IsMainProbe(e) == e.resource = MainResource
MainProbes == SelectSeq(upstream_log, IsMainProbe)
Configured == Platforms(Lower(region))
IsResolverEndpoint == endpoint \in {"summoner_info", "ranked_stats"}
ValidRouting == Lower(region) \in {RoutingText.americas, RoutingText.europe, RoutingText.asia, RoutingText.sea}

\* C1: for a valid routing value, the i-th probe goes to the i-th configured platform
\* (lower-cased), no probe follows a probe that answered 200, and a returned platform
\* is the first platform, in the configured order, whose probe answered 200.
C1_ProbesInOrderFirstSuccessWins ==
    (IsResolverEndpoint /\ ValidRouting) =>
        /\ Len(MainProbes) <= Len(Configured)
        /\ \A i \in 1..Len(MainProbes) : MainProbes[i].host = Lower(Configured[i])
        /\ \A i \in 1..(Len(MainProbes) - 1) : MainProbes[i].outcome \notin {"ok", "ok_empty"}
        /\ response.status = 200 =>
             /\ MainProbes # <<>>
             /\ MainProbes[Len(MainProbes)].outcome \in {"ok", "ok_empty"}
             /\ response.platform = Lower(Configured[Len(MainProbes)])

\* C1 witness: the third platform is returned after an error and a 404 on the first two.
C1_Witness ==
    /\ IsResolverEndpoint /\ response.status = 200
    /\ Len(MainProbes) = 3
    /\ MainProbes[1].outcome = "error" /\ MainProbes[2].outcome = "not_found"
    /\ response.platform = Lower(Configured[3])

\* Every candidate platform was probed by the main loop, none answered 200.
Exhausted ==
    /\ IsResolverEndpoint /\ ValidRouting /\ pc = "done"
    /\ Len(MainProbes) = Len(Configured)
    /\ \A i \in 1..Len(MainProbes) : MainProbes[i].outcome \notin {"ok", "ok_empty"}

ErrorProbes == {i \in 1..Len(MainProbes) : MainProbes[i].outcome \in {"error", "conn_error"}}
LastErrorProbe == CHOOSE i \in ErrorProbes : \A j \in ErrorProbes : j <= i

\* C2: on exhaustion the request fails with 404 iff no probe recorded an error, and
\* otherwise with 500 carrying the error of the last platform that recorded one.
C2_ExhaustionStatus ==
    Exhausted =>
        /\ (response.status = 404 /\ response.kind = "ResourceNotFound") <=> (ErrorProbes = {})
        /\ ErrorProbes # {} =>
             /\ response.status = 500 /\ response.kind = "UpstreamUnavailable"
             /\ response.error.platform = MainProbes[LastErrorProbe].host
             /\ response.error.kind =
                  (IF MainProbes[LastErrorProbe].outcome = "error" THEN "status" ELSE "connection")

\* C2 witness: two platforms record different errors, the last platform answers 404,
\* and the response carries the second error.
C2_Witness ==
    /\ Exhausted /\ Len(MainProbes) = 3
    /\ MainProbes[1].outcome = "conn_error"
    /\ MainProbes[2].outcome = "error"
    /\ MainProbes[3].outcome = "not_found"
    /\ response.status = 500 /\ response.error.platform = MainProbes[2].host

\* C3: a region that is not one of the four routing values (ignoring case) is
\* rejected with 400 and no upstream request is issued.
C3_InvalidRegionRejected ==
    (IsResolverEndpoint /\ pc = "done" /\ ~ValidRouting) =>
        /\ response.status = 400
        /\ upstream_log = <<>>

\* The summoner-by-puuid probes of the request (of get_summoner_id_from_puuid and
\* of the for loop of get_champion_mastery)
IsHelperProbe(e) == e.resource = "summoner_by_puuid"
HelperProbes == SelectSeq(upstream_log, IsHelperProbe)

\* C21: a ranked-stats request with neither or both of summoner_id and puuid ends
\* with 400 InvalidInput in its first step, whatever the region is and with no
\* upstream request; with exactly one of them it is not rejected as invalid input,
\* the puuid of the request is never rebound, and input_method of a result is
\* "puuid" when the puuid was supplied and "summoner_id" otherwise.
C21_RankedInputValidation ==
    /\ [][/\ puuid' = puuid
          /\ (endpoint = "ranked_stats" /\ pc = "start") =>
               IF (summoner_id = None) = (puuid = None)
                 THEN /\ response'.status = 400 /\ response'.kind = "InvalidInput"
                      /\ pc' = "done" /\ upstream_log' = <<>>
                 ELSE response'.kind # "InvalidInput"]_vars
    /\ []((endpoint = "ranked_stats" /\ response.status = 200) =>
            response.input_method = (IF puuid # None THEN "puuid" ELSE "summoner_id"))

\* C21 witness: a result for a request that supplied the puuid only, whose summoner
\* id was resolved on the second platform.
C21_Witness ==
    /\ endpoint = "ranked_stats" /\ response.status = 200
    /\ puuid # None /\ summoner_id = IdText.S1
    /\ Len(HelperProbes) = 2
    /\ response.input_method = "puuid"

\* get_summoner_id_from_puuid probed every candidate platform and none gave an id.
HelperFailed ==
    /\ endpoint = "ranked_stats" /\ ValidRouting /\ pc = "done"
    /\ puuid # None /\ summoner_id = None
    /\ Len(HelperProbes) = Len(Configured)

HelperErrorProbes ==
    {i \in 1..Len(HelperProbes) : HelperProbes[i].outcome \in {"error", "conn_error"}}

\* C22: when the summoner id of a ranked-stats request cannot be resolved on any
\* platform, the request fails with 404 ResourceNotFound iff no probe failed with a
\* non-404 status or a connection error, and otherwise with 500 UpstreamUnavailable.
C22_HelperExhaustionStatus ==
    HelperFailed =>
        /\ (response.status = 404 /\ response.kind = "ResourceNotFound")
               <=> (HelperErrorProbes = {})
        /\ HelperErrorProbes # {} =>
               (response.status = 500 /\ response.kind = "UpstreamUnavailable")

\* C23: in the champion-mastery lookup, a summoner-by-puuid probe that answers with
\* a status other than 200 and 404 on a platform that is not the last candidate is
\* followed by a probe of the next platform.
C23_MasteryProbingContinues ==
    (endpoint = "champion_mastery" /\ ValidRouting /\ pc = "done") =>
        \A i \in 1..Len(HelperProbes) :
            (HelperProbes[i].outcome \in {"error", "forbidden"} /\ i < Len(Configured)) =>
                /\ Len(HelperProbes) > i
                /\ HelperProbes[i + 1].host = Lower(Configured[i + 1])

\* ------------------------------------------------------ aggregation: inputs
\* The caps of match_count
PerformanceMaxCount == 30
SpellsMaxCount == 25
RunesMaxCount == 20

\* The match_count values requests are sent with
MatchCounts == {-1, 0, 2, 45}

\* A participant row of a match payload
Row(p, team, k, d, a, w, champ, role, s1, s2, st) ==
    [puuid |-> p, teamId |-> team, kills |-> k, deaths |-> d, assists |-> a, win |-> w,
     championName |-> champ, teamPosition |-> role,
     summoner1Id |-> s1, summoner2Id |-> s2, styles |-> st]


SeqsUpTo(S, n) == UNION {[1..k -> S] : k \in 0..n}
InsertAt(seq, i, x) == SubSeq(seq, 1, i) \o <<x>> \o SubSeq(seq, i + 1, Len(seq))

\* The participant lists upstream answers with: up to MaxOthers rows of other players
\* and at most one row of the requested player, at any position.
ParticipantLists(playerRows, otherRows) ==
    LET others == SeqsUpTo(otherRows, MaxOthers) IN
    others \cup UNION {{InsertAt(o, i, p) : i \in 0..Len(o), p \in playerRows} : o \in others}

\* Outcomes of one upstream fetch: 2xx, an error status (raise_for_status raises), or a
\* transport error
FetchOutcomes == {"ok", "http_error", "conn_error"}

\* validate_region_routing: membership of the lower-cased region in regional_routings
ValidateRegionRouting(given_region) ==
    Lower(given_region) \in {RegionalRoutings[i] : i \in DOMAIN RegionalRoutings}

\* Faulty variant of CappedCount: the cap is missing.
CappedCountOff(count, cap) == count

\* `if match_count > cap: match_count = cap`
CappedCount(count, cap) == IF count > cap THEN cap ELSE count

\* The ids upstream may return for a request of `count` ids when it holds `most`
\* matches of the player: id 1 is the most recent match
IdListsUpTo(count, most) == {[i \in 1..n |-> i] : n \in 0..Min(Max(count, 0), most)}

\* The ids upstream may return for a request of `count` ids
IdLists(count) == IdListsUpTo(count, MaxMatches)

\* Counter()[k] += 1
Inc(c, k) == IF k \in DOMAIN c THEN [c EXCEPT ![k] = @ + 1] ELSE c @@ (k :> 1)

\* round(num / den, digits) as an integer count of 10^-digits, half to even
RoundHalfEven(num, den) ==
    LET q == num \div den
        r == num % den
    IN  IF 2 * r < den THEN q
        ELSE IF 2 * r > den THEN q + 1
        ELSE IF q % 2 = 0 THEN q ELSE q + 1

RECURSIVE SumKills(_, _)
\* The kills of all rows of `participants` on team `team`
SumKills(participants, team) ==
    IF participants = <<>> THEN 0
    ELSE (IF Head(participants).teamId = team THEN Head(participants).kills ELSE 0)
             + SumKills(Tail(participants), team)

\* What a match-detail fetch brought back, as the upstream saw it
LogEntry(match_id, outcome, participants) ==
    LET IsPlayer(r) == r.puuid = puuid
        rows == SelectSeq(participants, IsPlayer)
    IN  [match_id |-> match_id, outcome |-> outcome, rows |-> rows,
         team_total |-> IF rows = <<>> THEN 0
                        ELSE SumKills(participants, rows[Len(rows)].teamId)]

\* The handler's position after an iteration of the for loop over match_ids
AfterIteration == IF match_idx + 1 > Len(match_ids) THEN "finish" ELSE "loop"

\* ------------------------------------------- get_player_performance handler
PlayerStatLines == {<<3, 0, 2, TRUE>>, <<1, 2, 0, FALSE>>, <<0, 1, 0, FALSE>>}

PerfPlayerRows ==
    {Row(IdText.P1, 100, l[1], l[2], l[3], l[4], RowText.Ahri, RowText.MIDDLE, 4, 14, <<>>) :
        l \in PlayerStatLines}

PerfOtherRows ==
    {Row(IdText.Q1, 100, 2, 1, 0, TRUE, RowText.Lux, RowText.UTILITY, 4, 14, <<>>),
     Row(IdText.Q1, 200, 1, 1, 0, FALSE, RowText.Lux, RowText.UTILITY, 4, 14, <<>>)}

PerfParticipantLists == ParticipantLists(PerfPlayerRows, PerfOtherRows)

\* Faulty variant of RequestsCatches: only transport errors are caught.
RequestsCatchesTransportOnly(outcome) == outcome = "conn_error"

\* Whether the `except requests.RequestException` of the loop body catches the failure
\* (requests.HTTPError, raised by raise_for_status, is a RequestException)
RequestsCatches(outcome) == outcome \in {"http_error", "conn_error"}

RECURSIVE ScanParticipants(_, _, _, _)
\* Lines 130-137: the pass over the participants; team kills are added only once
\* player_data is set.
ScanParticipants(participants, wanted, found, kills_so_far) ==
    IF participants = <<>> THEN [player_data |-> found, team_kills |-> kills_so_far]
    ELSE LET participant == Head(participants)
             now == IF participant.puuid = wanted THEN <<participant>> ELSE found
         IN  ScanParticipants(Tail(participants), wanted, now,
                 IF now # <<>> /\ participant.teamId = now[1].teamId
                   THEN kills_so_far + participant.kills
                   ELSE kills_so_far)

\* Faulty variant of Kda: the deaths are the denominator as they come.
KdaRawDeaths(row) == [num |-> row.kills + row.assists, den |-> row.deaths]

\* Line 155: kda = (kills + assists) / max(deaths, 1), as a fraction
Kda(row) == [num |-> row.kills + row.assists, den |-> Max(row.deaths, 1)]

\* Line 178: kp = ((kills + assists) / max(team_kills, 1)) * 100 if team_kills > 0 else 0
KillParticipation(row, tk) ==
    IF tk > 0 THEN [num |-> (row.kills + row.assists) * 100, den |-> Max(tk, 1)]
    ELSE [num |-> 0, den |-> 1]

\* The head of the three aggregation handlers (get_player_performance lines 66-99,
\* get_summoner_spells_analysis lines 80-102, get_runes_masteries lines 75-98): region
\* validation, the cap on match_count, the fetch of the match ids.
FetchMatchIdsOf(ep, cap, most) ==
    /\ endpoint = ep /\ pc = "start"
    /\ region_lower' = Lower(region)
    /\ IF ~ValidateRegionRouting(Lower(region))
         THEN /\ response' = HttpError(400, "InvalidRegion")
              /\ pc' = "done"
              /\ UNCHANGED <<match_count, match_ids, upstream_log>>
         ELSE /\ match_count' = CappedCount(match_count, cap)
              /\ \E outcome \in FetchOutcomes :
                   /\ upstream_log' = Logged(Lower(region), "match_ids", outcome)
                   /\ IF outcome # "ok"
                        THEN /\ response' = HttpError(500, "UpstreamUnavailable")
                             /\ pc' = "done"
                             /\ UNCHANGED match_ids
                        ELSE \E ids \in IdListsUpTo(match_count', most) :
                               /\ match_ids' = ids
                               /\ IF ids = <<>>
                                    THEN /\ response' = HttpError(404, "ResourceNotFound")
                                         /\ pc' = "done"
                                    ELSE /\ pc' = "loop"
                                         /\ UNCHANGED response
    /\ UNCHANGED <<singleVars, scoreVars, endpoint, region, summoner_id, puuid, platforms, platform_idx,
                   last_error, summoner_data, ranked_data, successful_platform,
                   champion_name, match_idx, match_status, player_data, match_log,
                   result, perfVars, spellVars, runeVars>>

\* The head of a handler when upstream holds up to MaxMatches matches of the player
FetchMatchIds(ep, cap) == FetchMatchIdsOf(ep, cap, MaxMatches)

PerfStart == FetchMatchIds("performance", PerformanceMaxCount)

\* Lines 117-202: one iteration of the for loop over match_ids, for a match whose
\* participant list is one of `lists`.
PerfIteration(lists) ==
    /\ endpoint = "performance" /\ pc = "loop"
    /\ match_idx <= Len(match_ids)
    /\ \E outcome \in FetchOutcomes, participants \in lists :
         LET match_id == match_ids[match_idx]
             scan == ScanParticipants(participants, puuid, <<>>, 0)
         IN
         /\ outcome # "ok" => participants = <<>>
         /\ match_status' = outcome
         /\ match_log' = Append(match_log, LogEntry(match_id, outcome, participants))
         /\ IF outcome # "ok"
              THEN /\ IF RequestsCatches(outcome)
                        THEN /\ match_idx' = match_idx + 1
                             /\ pc' = AfterIteration
                             /\ UNCHANGED response
                        ELSE /\ response' = HttpError(500, "UpstreamUnavailable")
                             /\ pc' = "done"
                             /\ UNCHANGED match_idx
                   /\ UNCHANGED <<player_data, perfVars>>
              ELSE /\ IF scan.player_data # <<>>
                           /\ (Kda(scan.player_data[1]).den = 0
                                 \/ KillParticipation(scan.player_data[1],
                                                      scan.team_kills).den = 0)
                        THEN /\ response' = HttpError(500, "UnhandledException")
                             /\ pc' = "done"
                             /\ UNCHANGED match_idx
                        ELSE /\ match_idx' = match_idx + 1
                             /\ pc' = AfterIteration
                             /\ UNCHANGED response
                   /\ player_data' = scan.player_data
                   /\ team_kills' = scan.team_kills
                   /\ IF scan.player_data = <<>>
                        THEN UNCHANGED <<total_games, wins, champions_played, roles_played,
                                         kda_values, kill_participation, performance_data>>
                        ELSE LET row == scan.player_data[1]
                                 kda == Kda(row)
                                 kp == KillParticipation(row, scan.team_kills)
                             IN
                             /\ total_games' = total_games + 1
                             /\ champions_played' = Inc(champions_played, row.championName)
                             /\ roles_played' = Inc(roles_played, row.teamPosition)
                             /\ IF kda.den = 0 \/ kp.den = 0
                                  THEN \* ZeroDivisionError, which no except clause catches
                                       UNCHANGED <<kda_values, kill_participation, wins,
                                                   performance_data>>
                                  ELSE
                                  /\ kda_values' = Append(kda_values, kda)
                                  /\ kill_participation' = Append(kill_participation, kp)
                                  /\ wins' = IF row.win THEN wins + 1 ELSE wins
                                  /\ performance_data' = Append(performance_data,
                                       [match_id |-> match_id,
                                        champion |-> row.championName,
                                        role |-> row.teamPosition,
                                        kda |-> RoundHalfEven(kda.num * 100, kda.den),
                                        kill_participation |->
                                            RoundHalfEven(kp.num * 10, kp.den),
                                        win |-> row.win])
    /\ UNCHANGED <<singleVars, scoreVars, endpoint, resolverVars, match_count, champion_name, match_ids, result,
                   spellVars, runeVars>>

PerfMatch == PerfIteration(PerfParticipantLists)

\* performance_data[-n:]
LastN(seq, n) == SubSeq(seq, Max(1, Len(seq) - n + 1), Len(seq))

RECURSIVE SumField(_, _)
\* sum(match[field] for match in matches)
SumField(matches, field) ==
    IF matches = <<>> THEN 0
    ELSE Head(matches)[field] + SumField(Tail(matches), field)

\* safe_mean, lines 208-209, of values given and returned in hundredths
SafeMean(matches, field) ==
    IF matches = <<>> THEN 0 ELSE RoundHalfEven(SumField(matches, field), Len(matches))

\* Lines 237-244: win_rate (in tenths of a percent) and avg_kda (in hundredths) of
\* performance_data[-n:]; the denominator of the win rate is min(n, len(performance_data))
Trend(data, n) ==
    LET IsWin(match) == match.win IN
    [win_rate |-> RoundHalfEven(Len(SelectSeq(LastN(data, n), IsWin)) * 1000,
                                Min(n, Len(data))),
     avg_kda |-> SafeMean(LastN(data, n), "kda")]

\* Lines 204-250: NoDataFound, or the report.
PerfFinish ==
    /\ endpoint = "performance" /\ pc = "finish"
    /\ IF performance_data = <<>>
         THEN /\ response' = HttpError(404, "NoDataFound")
              /\ UNCHANGED result
         ELSE /\ response' = [status |-> 200, kind |-> "ok", platform |-> None,
                              error |-> NoError]
              /\ result' = [matches_analyzed |-> total_games,
                            win_rate |-> [num |-> wins * 100, den |-> total_games],
                            role_distribution |-> roles_played,
                            performance_trends |->
                                [recent_5_games |-> Trend(performance_data, 5),
                                 recent_10_games |-> Trend(performance_data, 10)],
                            detailed_matches |-> LastN(performance_data, 10)]
    /\ pc' = "done"
    /\ UNCHANGED <<singleVars, scoreVars, endpoint, resolverVars, match_count, champion_name, match_ids,
                   match_idx, match_status, player_data, match_log,
                   perfVars, spellVars, runeVars>>

\* ------------------------------------- get_summoner_spells_analysis handler
\* Faulty variant of SpellName: an id outside the table loses its number.
SpellNameNoId(id) ==
    CASE id = 4  -> SpellText.Flash
      [] id = 14 -> SpellText.Ignite
      [] OTHER   -> SpellText.Unknown_

\* SUMMONER_SPELLS.get(id, f"Unknown_{id}")
SpellName(id) ==
    CASE id = 1  -> SpellText.Cleanse
      [] id = 3  -> SpellText.Exhaust
      [] id = 4  -> SpellText.Flash
      [] id = 6  -> SpellText.Ghost
      [] id = 7  -> SpellText.Heal
      [] id = 11 -> SpellText.Smite
      [] id = 12 -> SpellText.Teleport
      [] id = 13 -> SpellText.Clarity
      [] id = 14 -> SpellText.Ignite
      [] id = 21 -> SpellText.Barrier
      [] id = 32 -> SpellText.Mark_Dash
      [] OTHER   -> SpellText.Unknown_ \o StrOfNat(id)

\* Faulty variant of SpellCombo: the pair is kept in slot order.
SpellComboUnsorted(spell1_id, spell2_id) == <<SpellName(spell1_id), SpellName(spell2_id)>>

\* Lines 142-146: tuple(sorted([spell1_name, spell2_name]))
SpellCombo(spell1_id, spell2_id) ==
    LET spell1_name == SpellName(spell1_id)
        spell2_name == SpellName(spell2_id)
    IN  IF StrLess(spell2_name, spell1_name)
          THEN <<spell2_name, spell1_name>>
          ELSE <<spell1_name, spell2_name>>

\* The spell ids of the rows upstream answers with (99 is in no table)
SpellIds == {4, 14, 99}
ChampionRoles == {<<RowText.Ahri, RowText.MIDDLE>>, <<RowText.Lux, RowText.UTILITY>>}

SpellPlayerRows ==
    {Row(IdText.P1, 100, 1, 1, 1, w, cr[1], cr[2], ids[1], ids[2], <<>>) :
        w \in BOOLEAN, cr \in ChampionRoles,
        ids \in {p \in SpellIds \X SpellIds : p[1] # p[2]}}

SpellOtherRows == {Row(IdText.Q1, 100, 0, 1, 0, TRUE, RowText.Lux, RowText.UTILITY, 4, 14, <<>>)}

SpellParticipantLists == ParticipantLists(SpellPlayerRows, SpellOtherRows)

\* The champion_name values requests are sent with
ChampionFilters == {None, RowText.AHRI}

RECURSIVE FirstRow(_, _)
\* The for loop with break: the first row of the requested player, or None
FirstRow(participants, wanted) ==
    IF participants = <<>> THEN <<>>
    ELSE IF Head(participants).puuid = wanted THEN <<Head(participants)>>
    ELSE FirstRow(Tail(participants), wanted)

\* Faulty variant of FilteredOut: the comparison keeps the letter case.
FilteredOutCaseSensitive(champion) ==
    champion_name # None /\ champion # champion_name

\* `if champion_name and champion.lower() != champion_name.lower(): continue`
FilteredOut(champion) ==
    champion_name # None /\ Lower(champion) # Lower(champion_name)

NewBuckets == [combinations |-> EmptyMap, wins |-> EmptyMap, games |-> EmptyMap]

\* Faulty variant of Tracked: a lost match is not added to the games of the bucket.
TrackedWonOnly(by, key, combo, win) ==
    LET d == IF key \in DOMAIN by THEN by ELSE by @@ (key :> NewBuckets) IN
    [d EXCEPT ![key] = [combinations |-> Inc(@.combinations, combo),
                        games |-> IF win THEN Inc(@.games, combo) ELSE @.games,
                        wins |-> IF win THEN Inc(@.wins, combo) ELSE @.wins]]

\* Lines 154-178: the per-champion and per-role update of one counted match
Tracked(by, key, combo, win) ==
    LET d == IF key \in DOMAIN by THEN by ELSE by @@ (key :> NewBuckets) IN
    [d EXCEPT ![key] = [combinations |-> Inc(@.combinations, combo),
                        games |-> Inc(@.games, combo),
                        wins |-> IF win THEN Inc(@.wins, combo) ELSE @.wins]]

SpellsStart == FetchMatchIds("spells", SpellsMaxCount)

\* Lines 111-182: one iteration of the for loop over match_ids.
SpellsMatch ==
    /\ endpoint = "spells" /\ pc = "loop"
    /\ match_idx <= Len(match_ids)
    /\ \E outcome \in FetchOutcomes, participants \in SpellParticipantLists :
         LET match_id == match_ids[match_idx]
             found == FirstRow(participants, puuid)
         IN
         /\ outcome # "ok" => participants = <<>>
         /\ match_status' = outcome
         /\ match_log' = Append(match_log, LogEntry(match_id, outcome, participants))
         /\ IF outcome # "ok"
              THEN /\ IF RequestsCatches(outcome)
                        THEN /\ match_idx' = match_idx + 1
                             /\ pc' = AfterIteration
                             /\ UNCHANGED response
                        ELSE /\ response' = HttpError(500, "UpstreamUnavailable")
                             /\ pc' = "done"
                             /\ UNCHANGED match_idx
                   /\ UNCHANGED <<player_data, spellVars>>
              ELSE /\ match_idx' = match_idx + 1
                   /\ pc' = AfterIteration
                   /\ UNCHANGED response
                   /\ player_data' = found
                   /\ IF found = <<>> \/ FilteredOut(found[1].championName)
                        THEN UNCHANGED spellVars
                        ELSE LET row == found[1]
                                 spell_combo == SpellCombo(row.summoner1Id, row.summoner2Id)
                             IN
                             /\ spell_combinations' = Inc(spell_combinations, spell_combo)
                             /\ spell_games' = Inc(spell_games, spell_combo)
                             /\ spell_wins' = IF row.win THEN Inc(spell_wins, spell_combo)
                                              ELSE spell_wins
                             /\ champion_spells' = Tracked(champion_spells,
                                    row.championName, spell_combo, row.win)
                             /\ role_spells' = Tracked(role_spells,
                                    row.teamPosition, spell_combo, row.win)
    /\ UNCHANGED <<singleVars, scoreVars, endpoint, resolverVars, match_count, champion_name, match_ids, result,
                   perfVars, runeVars>>

\* f"{combo[0]} + {combo[1]}"
ComboLabel(combo) == combo[1] \o <<32, 43, 32>> \o combo[2]

\* round((wins / games * 100) if games > 0 else 0, 1), in tenths of a percent
WinRate(wins_in_bucket, games) ==
    IF games > 0 THEN RoundHalfEven(wins_in_bucket * 1000, games) ELSE 0

\* Lines 188-222: games, wins and win rate of each bucket of a pair of counters, by label
BucketStats(games, won) ==
    [label \in {ComboLabel(c) : c \in DOMAIN games} |->
        LET combo == CHOOSE c \in DOMAIN games : ComboLabel(c) = label
            wins_in_bucket == IF combo \in DOMAIN won THEN won[combo] ELSE 0
        IN  [games |-> games[combo],
             wins |-> wins_in_bucket,
             win_rate |-> WinRate(wins_in_bucket, games[combo])]]

RECURSIVE SumOver(_, _)
\* The sum of a counter's values over `keys`
SumOver(counter, keys) ==
    IF keys = {} THEN 0
    ELSE LET k == CHOOSE x \in keys : TRUE IN counter[k] + SumOver(counter, keys \ {k})

\* Line 228: len([combo for combo in spell_combinations])
MatchesAnalyzed == Cardinality(DOMAIN spell_combinations)

\* Lines 184-238: NoDataFound, or the report.
SpellsFinish ==
    /\ endpoint = "spells" /\ pc = "finish"
    /\ IF spell_combinations = EmptyMap
         THEN /\ response' = HttpError(404, "NoDataFound")
              /\ UNCHANGED result
         ELSE /\ response' = [status |-> 200, kind |-> "ok", platform |-> None,
                              error |-> NoError]
              /\ result' =
                   [matches_analyzed |-> MatchesAnalyzed,
                    spell_stats |-> BucketStats(spell_games, spell_wins),
                    champion_breakdown |->
                        [c \in DOMAIN champion_spells |->
                            BucketStats(champion_spells[c].games, champion_spells[c].wins)],
                    role_breakdown |->
                        [r \in DOMAIN role_spells |->
                            BucketStats(role_spells[r].games, role_spells[r].wins)]]
    /\ pc' = "done"
    /\ UNCHANGED <<singleVars, scoreVars, endpoint, resolverVars, match_count, champion_name, match_ids,
                   match_idx, match_status, player_data, match_log,
                   perfVars, spellVars, runeVars>>

\* ---------------------------------------------- get_runes_masteries handler
\* RUNE_TREES.get(id, f"Unknown_{id}")
RuneTreeName(id) ==
    CASE id = 8000 -> RuneText.Precision
      [] id = 8100 -> RuneText.Domination
      [] id = 8200 -> RuneText.Sorcery
      [] id = 8300 -> RuneText.Resolve
      [] id = 8400 -> RuneText.Inspiration
      [] OTHER     -> SpellText.Unknown_ \o StrOfNat(id)

Style(id, perks) == [style |-> id, selections |-> [i \in DOMAIN perks |-> [perk |-> perks[i]]]]

\* The perks.styles values of the rows upstream answers with: a known primary tree with
\* a keystone, a primary tree with no selection, two unknown tree ids, a single style
StylesOptions ==
    {<<Style(8000, <<8005>>), Style(8100, <<>>)>>,
     <<Style(8200, <<>>), Style(8000, <<>>)>>,
     <<Style(9999, <<8112>>), Style(7777, <<>>)>>,
     <<Style(8000, <<8005>>)>>}

RunePlayerRows ==
    {Row(IdText.P1, 100, 1, 1, 1, w, champ, RowText.MIDDLE, 4, 14, st) :
        w \in BOOLEAN, champ \in {RowText.Ahri, RowText.Lux}, st \in StylesOptions}

RuneOtherRows == {Row(IdText.Q1, 100, 0, 1, 0, TRUE, RowText.Lux, RowText.UTILITY, 4, 14, <<>>)}

RuneParticipantLists == ParticipantLists(RunePlayerRows, RuneOtherRows)

\* Whether the `except httpx.RequestError` of the loop body catches the failure
\* (httpx.HTTPStatusError, raised by raise_for_status, is not a RequestError)
HttpxCatches(outcome) == outcome = "conn_error"

NewChampionRunes ==
    [primary_trees |-> EmptyMap, secondary_trees |-> EmptyMap, keystones |-> EmptyMap,
     games |-> 0]

RunesStart == FetchMatchIds("runes", RunesMaxCount)

\* Lines 107-181: one iteration of the for loop over match_ids.
RunesMatch ==
    /\ endpoint = "runes" /\ pc = "loop"
    /\ match_idx <= Len(match_ids)
    /\ \E outcome \in FetchOutcomes, participants \in RuneParticipantLists :
         LET match_id == match_ids[match_idx]
             found == FirstRow(participants, puuid)
         IN
         /\ outcome # "ok" => participants = <<>>
         /\ match_status' = outcome
         /\ match_log' = Append(match_log, LogEntry(match_id, outcome, participants))
         /\ IF outcome # "ok"
              THEN /\ IF HttpxCatches(outcome)
                        THEN /\ match_idx' = match_idx + 1
                             /\ pc' = AfterIteration
                             /\ UNCHANGED response
                        ELSE \* the outer `except httpx.HTTPStatusError`
                             /\ response' = HttpError(500, "UpstreamUnavailable")
                             /\ pc' = "done"
                             /\ UNCHANGED match_idx
                   /\ UNCHANGED <<player_data, runeVars>>
              ELSE
              /\ player_data' = found
              /\ IF found = <<>> \/ FilteredOut(found[1].championName)
                     \/ Len(found[1].styles) < 2
                   THEN /\ match_idx' = match_idx + 1
                        /\ pc' = AfterIteration
                        /\ UNCHANGED <<response, runeVars>>
                   ELSE
                   LET row == found[1]
                       champion == row.championName
                       primary_style == row.styles[1]
                       secondary_style == row.styles[2]
                       primary_tree_name == RuneTreeName(primary_style.style)
                       secondary_tree_name == RuneTreeName(secondary_style.style)
                       primary_selections == primary_style.selections
                       keystone == IF primary_selections # <<>>
                                     THEN primary_selections[1].perk
                                     ELSE keystone_id
                       runes == IF champion \in DOMAIN champion_runes THEN champion_runes
                                ELSE champion_runes @@ (champion :> NewChampionRunes)
                   IN
                   /\ primary_trees' = Inc(primary_trees, primary_tree_name)
                   /\ secondary_trees' = Inc(secondary_trees, secondary_tree_name)
                   /\ keystone_id' = keystone
                   /\ keystone_runes' = IF primary_selections # <<>>
                                          THEN Inc(keystone_runes, keystone)
                                          ELSE keystone_runes
                   /\ champion_order' = IF champion \in DOMAIN champion_runes
                                          THEN champion_order
                                          ELSE Append(champion_order, champion)
                   /\ IF keystone = Unbound
                        THEN \* line 167 reads keystone_id before any assignment:
                             \* UnboundLocalError, which no except clause catches
                             /\ champion_runes' =
                                  [runes EXCEPT ![champion] =
                                     [@ EXCEPT !.primary_trees = Inc(@, primary_tree_name),
                                               !.secondary_trees = Inc(@, secondary_tree_name)]]
                             /\ response' = HttpError(500, "UnhandledException")
                             /\ pc' = "done"
                             /\ UNCHANGED <<match_idx, rune_data>>
                        ELSE /\ champion_runes' =
                                  [runes EXCEPT ![champion] =
                                     [primary_trees |-> Inc(@.primary_trees, primary_tree_name),
                                      secondary_trees |->
                                          Inc(@.secondary_trees, secondary_tree_name),
                                      keystones |-> Inc(@.keystones, keystone),
                                      games |-> @.games + 1]]
                             /\ rune_data' = Append(rune_data,
                                    [match_id |-> match_id,
                                     champion |-> champion,
                                     primary_tree |-> primary_tree_name,
                                     secondary_tree |-> secondary_tree_name,
                                     keystone_id |-> keystone,
                                     win |-> row.win])
                             /\ match_idx' = match_idx + 1
                             /\ pc' = AfterIteration
                             /\ UNCHANGED response
    /\ UNCHANGED <<singleVars, scoreVars, endpoint, resolverVars, match_count, champion_name, match_ids, result,
                   perfVars, spellVars>>

\* Lines 183-212: NoDataFound, or the report; the `return result` inside the for loop
\* over champion_runes.items() returns after the first champion, in insertion order.
RunesFinish ==
    /\ endpoint = "runes" /\ pc = "finish"
    /\ IF rune_data = <<>>
         THEN /\ response' = HttpError(404, "NoDataFound")
              /\ UNCHANGED result
         ELSE /\ response' = [status |-> 200, kind |-> "ok", platform |-> None,
                              error |-> NoError]
              /\ result' =
                   [matches_analyzed |-> Len(rune_data),
                    champion_breakdown |->
                        [c \in {champion_order[1]} |->
                            [games_played |-> champion_runes[c].games]]]
    /\ pc' = "done"
    /\ UNCHANGED <<singleVars, scoreVars, endpoint, resolverVars, match_count, champion_name, match_ids,
                   match_idx, match_status, player_data, match_log,
                   perfVars, spellVars, runeVars>>

\* --------------------------------------------------- aggregation specification
\* The region strings the aggregation requests are sent with
AggRegionInputs == {RoutingText.Europe, PlatformText.na1}

InitAggregation ==
    /\ endpoint \in {"performance", "spells", "runes"}
    /\ pc = "start"
    /\ response = NoResponse
    /\ region \in AggRegionInputs
    /\ region_lower = None
    /\ summoner_id = None /\ puuid = IdText.P1
    /\ platforms = <<>> /\ platform_idx = 1
    /\ last_error = NoError
    /\ summoner_data = "None" /\ ranked_data = "None"
    /\ successful_platform = None
    /\ upstream_log = <<>>
    /\ ScoreIdle
    /\ SingleIdle
    /\ match_count \in MatchCounts
    /\ champion_name \in (IF endpoint = "performance" THEN {None} ELSE ChampionFilters)
    /\ match_ids = <<>> /\ match_idx = 1 /\ match_status = "none"
    /\ player_data = <<>> /\ match_log = <<>> /\ result = EmptyMap
    /\ team_kills = 0 /\ total_games = 0 /\ wins = 0
    /\ champions_played = EmptyMap /\ roles_played = EmptyMap
    /\ kda_values = <<>> /\ kill_participation = <<>> /\ performance_data = <<>>
    /\ spell_combinations = EmptyMap /\ spell_wins = EmptyMap /\ spell_games = EmptyMap
    /\ champion_spells = EmptyMap /\ role_spells = EmptyMap
    /\ rune_data = <<>> /\ primary_trees = EmptyMap /\ secondary_trees = EmptyMap
    /\ keystone_runes = EmptyMap /\ champion_runes = EmptyMap
    /\ champion_order = <<>> /\ keystone_id = Unbound

NextAggregation ==
    \/ PerfStart
    \/ PerfMatch
    \/ PerfFinish
    \/ SpellsStart
    \/ SpellsMatch
    \/ SpellsFinish
    \/ RunesStart
    \/ RunesMatch
    \/ RunesFinish

SpecAggregation == InitAggregation /\ [][NextAggregation]_vars

\* ------------------------------------------ performance trends specification
\* The performance handler over a longer match history: every match holds at most
\* the player's row, won with kda 5.0 or lost with kda 0.5.
TrendParticipantLists ==
    {<<>>,
     <<Row(IdText.P1, 100, 3, 0, 2, TRUE, RowText.Ahri, RowText.MIDDLE, 4, 14, <<>>)>>,
     <<Row(IdText.P1, 100, 1, 2, 0, FALSE, RowText.Ahri, RowText.MIDDLE, 4, 14, <<>>)>>}

TrendStart == FetchMatchIdsOf("performance", PerformanceMaxCount, MaxTrendMatches)

TrendMatch == PerfIteration(TrendParticipantLists)

InitTrend ==
    /\ endpoint = "performance"
    /\ pc = "start"
    /\ response = NoResponse
    /\ region = RoutingText.Europe
    /\ region_lower = None
    /\ summoner_id = None /\ puuid = IdText.P1
    /\ platforms = <<>> /\ platform_idx = 1
    /\ last_error = NoError
    /\ summoner_data = "None" /\ ranked_data = "None"
    /\ successful_platform = None
    /\ upstream_log = <<>>
    /\ ScoreIdle
    /\ SingleIdle
    /\ match_count \in {20, 45}
    /\ champion_name = None
    /\ match_ids = <<>> /\ match_idx = 1 /\ match_status = "none"
    /\ player_data = <<>> /\ match_log = <<>> /\ result = EmptyMap
    /\ team_kills = 0 /\ total_games = 0 /\ wins = 0
    /\ champions_played = EmptyMap /\ roles_played = EmptyMap
    /\ kda_values = <<>> /\ kill_participation = <<>> /\ performance_data = <<>>
    /\ spell_combinations = EmptyMap /\ spell_wins = EmptyMap /\ spell_games = EmptyMap
    /\ champion_spells = EmptyMap /\ role_spells = EmptyMap
    /\ rune_data = <<>> /\ primary_trees = EmptyMap /\ secondary_trees = EmptyMap
    /\ keystone_runes = EmptyMap /\ champion_runes = EmptyMap
    /\ champion_order = <<>> /\ keystone_id = Unbound

NextTrend ==
    \/ TrendStart
    \/ TrendMatch
    \/ PerfFinish

SpecTrend == InitTrend /\ [][NextTrend]_vars

\* -------------------------------------------------------- aggregation claims
\* What the upstream log says of the fetches of the loop, independently of the handler
Fetched == 1..Len(match_log)
AnsweredWithRow(i) == match_log[i].outcome = "ok" /\ match_log[i].rows # <<>>
PassesFilter(i) ==
    \/ champion_name = None
    \/ Lower(match_log[i].rows[1].championName) = Lower(champion_name)
WithRow == {i \in Fetched : AnsweredWithRow(i)}
WithRowAndChampion == {i \in WithRow : PassesFilter(i)}
LoopRan == match_ids # <<>>

RECURSIVE IdsOf(_)
IdsOf(records) ==
    IF records = <<>> THEN <<>> ELSE <<Head(records).match_id>> \o IdsOf(Tail(records))
AnsweredWithRowEntry(e) == e.outcome = "ok" /\ e.rows # <<>>

\* C4: in the performance and spell aggregations every id is fetched, in order, whatever
\* fetches failed; failed ids add nothing to any counter or list; the report is built
\* from exactly the ids that succeeded, and a failing id never fails the request.
C4_FailureIsolation ==
    (endpoint \in {"performance", "spells"}) =>
        /\ Len(match_log) = match_idx - 1
        /\ \A i \in Fetched : match_log[i].match_id = match_ids[i]
        /\ (LoopRan /\ pc \in {"finish", "done"}) => Len(match_log) = Len(match_ids)
        /\ endpoint = "performance" =>
             /\ IdsOf(performance_data) = IdsOf(SelectSeq(match_log, AnsweredWithRowEntry))
             /\ total_games = Cardinality(WithRow)
             /\ Len(kda_values) = Cardinality(WithRow)
             /\ Len(kill_participation) = Cardinality(WithRow)
        /\ endpoint = "spells" =>
             /\ SumOver(spell_games, DOMAIN spell_games) = Cardinality(WithRowAndChampion)
             /\ SumOver(spell_combinations, DOMAIN spell_combinations)
                    = Cardinality(WithRowAndChampion)
        /\ (LoopRan /\ pc = "done") =>
             /\ response.status \in {200, 404}
             /\ response.status = 200 <=>
                  (IF endpoint = "performance" THEN WithRow # {}
                   ELSE WithRowAndChampion # {})

\* C4 witness: the first fetch fails with an error status, the second succeeds, and the
\* report counts the second match alone.
C4_Witness ==
    /\ endpoint = "performance" /\ pc = "done" /\ response.status = 200
    /\ Len(match_log) = 2
    /\ match_log[1].outcome = "http_error" /\ match_log[2].outcome = "ok"
    /\ IdsOf(performance_data) = <<match_ids[2]>>

\* C5: in the rune aggregation an error status of one match-detail fetch is dropped:
\* it never fails the request as an upstream failure.
C5_RuneErrorStatusDropped ==
    (endpoint = "runes" /\ match_status = "http_error") =>
        response.kind # "UpstreamUnavailable"

\* C6: the count sent upstream is at most 30; matches_analyzed is the number of fetched
\* matches that hold a row of the requested player, so it is at most the count sent.
C6_PerformanceWindow ==
    (endpoint = "performance" /\ upstream_log # <<>>) =>
        /\ match_count <= 30
        /\ Len(match_ids) <= Max(match_count, 0)
        /\ total_games = Cardinality(WithRow)
        /\ response.status = 200 =>
             /\ result.matches_analyzed = Cardinality(WithRow)
             /\ result.matches_analyzed <= match_count

\* C6 witness: a request for 45 matches is sent as 30; of two fetched matches one has
\* no row of the player, and matches_analyzed is 1.
C6_Witness ==
    /\ endpoint = "performance" /\ response.status = 200
    /\ match_count = 30
    /\ Len(match_log) = 2
    /\ match_log[1].outcome = "ok" /\ match_log[1].rows = <<>>
    /\ result.matches_analyzed = 1

\* C7: the spell report's matches_analyzed is the number of matches in which the
\* player's row was found and the champion filter, if any, matched.
C7_SpellMatchesAnalyzed ==
    (endpoint = "spells" /\ response.status = 200) =>
        result.matches_analyzed = Cardinality(WithRowAndChampion)

\* C8: the kda of a counted match is (kills + assists) over deaths, over 1 when deaths
\* is 0, and no row makes the handler divide by zero.
C8_KdaDenominator ==
    endpoint = "performance" =>
        /\ response.kind # "UnhandledException"
        /\ \A i \in 1..Len(kda_values) : kda_values[i].den >= 1
        /\ (match_status = "ok" /\ player_data # <<>>) =>
             /\ kda_values # <<>>
             /\ LET row == player_data[1]
                    kda == kda_values[Len(kda_values)]
                IN  /\ kda.num = row.kills + row.assists
                    /\ kda.den = (IF row.deaths = 0 THEN 1 ELSE row.deaths)

\* C8 witness: a row with 3 kills, 0 deaths, 2 assists has kda 5/1.
C8_Witness ==
    /\ endpoint = "performance" /\ match_status = "ok" /\ player_data # <<>>
    /\ player_data[1].deaths = 0
    /\ kda_values # <<>>
    /\ kda_values[Len(kda_values)] = [num |-> 5, den |-> 1]

\* C9: the team kills used for kill participation are the kills of all rows of the
\* match on the player's team, wherever the player's row stands in the list.
C9_TeamKillsAllTeammates ==
    (endpoint = "performance" /\ match_status = "ok" /\ player_data # <<>>) =>
        team_kills = match_log[Len(match_log)].team_total

\* The counted matches whose row has the spell ids a and b, in either slot order
WithPair(S, a, b) ==
    {i \in S : {match_log[i].rows[1].summoner1Id, match_log[i].rows[1].summoner2Id} = {a, b}}
\* The buckets of a counter that hold the names of a and b, in either order
BucketsOf(counter, a, b) ==
    {k \in DOMAIN counter : {k[1], k[2]} = {SpellName(a), SpellName(b)}}
\* One bucket holds all n matches, or none exists when n = 0
OneBucket(counter, a, b, n) ==
    IF n = 0 THEN BucketsOf(counter, a, b) = {}
    ELSE /\ Cardinality(BucketsOf(counter, a, b)) = 1
         /\ \A k \in BucketsOf(counter, a, b) : counter[k] = n

\* C10: matches with the spells (a, b) and (b, a) are counted in one bucket, in the
\* overall counters and in those of each champion and each role.
C10_SpellPairOrderInvariant ==
    endpoint = "spells" =>
        \A a \in SpellIds, b \in SpellIds :
            /\ OneBucket(spell_games, a, b, Cardinality(WithPair(WithRowAndChampion, a, b)))
            /\ OneBucket(spell_combinations, a, b,
                         Cardinality(WithPair(WithRowAndChampion, a, b)))
            /\ \A c \in DOMAIN champion_spells :
                 OneBucket(champion_spells[c].games, a, b,
                     Cardinality(WithPair({i \in WithRowAndChampion :
                         match_log[i].rows[1].championName = c}, a, b)))
            /\ \A r \in DOMAIN role_spells :
                 OneBucket(role_spells[r].games, a, b,
                     Cardinality(WithPair({i \in WithRowAndChampion :
                         match_log[i].rows[1].teamPosition = r}, a, b)))

\* C10 witness: (Flash, Ignite) then (Ignite, Flash) on the same champion and role give
\* one bucket (Flash, Ignite) with 2 games overall, for the champion and for the role.
C10_Witness ==
    /\ endpoint = "spells" /\ Len(match_log) = 2
    /\ WithRowAndChampion = {1, 2}
    /\ match_log[1].rows[1].summoner1Id = 4 /\ match_log[1].rows[1].summoner2Id = 14
    /\ match_log[2].rows[1].summoner1Id = 14 /\ match_log[2].rows[1].summoner2Id = 4
    /\ DOMAIN spell_games = {<<SpellText.Flash, SpellText.Ignite>>}
    /\ spell_games[<<SpellText.Flash, SpellText.Ignite>>] = 2
    /\ \E c \in DOMAIN champion_spells : champion_spells[c].games = spell_games
    /\ \E r \in DOMAIN role_spells : role_spells[r].games = spell_games

\* The fetched matches that yield a usable row: the player's row was found and, where
\* the endpoint filters by champion, the filter matched
Usable == IF endpoint = "performance" THEN WithRow ELSE WithRowAndChampion

\* C11: in the performance, rune and spell aggregations, a request whose loop ran and in
\* which no fetched match yields a usable row (every fetch failed, the player's row was
\* absent, or the champion filter excluded every match) ends with NoDataFound (404);
\* no report with matches_analyzed = 0 is returned.
C11_EmptyResultIsNoDataFound ==
    (endpoint \in {"performance", "spells", "runes"} /\ pc = "done" /\ LoopRan) =>
        /\ Usable = {} => (response.status = 404 /\ response.kind = "NoDataFound")
        /\ response.status = 200 => result.matches_analyzed >= 1

\* The ids of the fixed tables SUMMONER_SPELLS and RUNE_TREES
SummonerSpellIds == {1, 3, 4, 6, 7, 11, 12, 13, 14, 21, 32}
RuneTreeIds == {8000, 8100, 8200, 8300, 8400}
\* The label the claim gives an id outside its table
UnknownLabel(id) == SpellText.Unknown_ \o StrOfNat(id)
\* The rune rows that reach the counters: found, passing the filter, with two styles
WithStyles == {i \in WithRowAndChampion : Len(match_log[i].rows[1].styles) >= 2}
\* The tree ids of the rune rows, in style slot n
TreeIdsAt(n) == {match_log[i].rows[1].styles[n].style : i \in WithStyles}
\* The entries of `counter` under `label`, 0 when the label is no key
CountUnder(counter, label) == IF label \in DOMAIN counter THEN counter[label] ELSE 0

\* C17: a summoner spell id outside the spell table is counted under Unknown_<id> in
\* the pair of its match, and a rune tree id outside the rune-tree table is counted under
\* Unknown_<id> in the primary or secondary tree counter; the match reaches the counters
\* and the rune rows like any other, and the request does not fail because of the id.
C17_UnknownIdsRetained ==
    /\ endpoint = "spells" =>
         /\ \A id \in SpellIds \ SummonerSpellIds :
              SumOver(spell_games,
                      {k \in DOMAIN spell_games : UnknownLabel(id) \in {k[1], k[2]}})
                = Cardinality({i \in WithRowAndChampion :
                      id \in {match_log[i].rows[1].summoner1Id,
                              match_log[i].rows[1].summoner2Id}})
         /\ (pc = "done" /\ WithRowAndChampion # {}) => response.status = 200
    /\ endpoint = "runes" =>
         /\ \A id \in TreeIdsAt(1) \ RuneTreeIds :
              /\ CountUnder(primary_trees, UnknownLabel(id))
                   = Cardinality({i \in WithStyles :
                         match_log[i].rows[1].styles[1].style = id})
              /\ \E j \in 1..Len(rune_data) : rune_data[j].primary_tree = UnknownLabel(id)
         /\ \A id \in TreeIdsAt(2) \ RuneTreeIds :
              /\ CountUnder(secondary_trees, UnknownLabel(id))
                   = Cardinality({i \in WithStyles :
                         match_log[i].rows[1].styles[2].style = id})
              /\ \E j \in 1..Len(rune_data) : rune_data[j].secondary_tree = UnknownLabel(id)
         /\ (Len(match_log) \in WithStyles
               /\ match_log[Len(match_log)].rows[1].styles[1].style \notin RuneTreeIds) =>
              response.status \in {0, 200}

\* C17 witness: the player took Flash (4) and the spell 99 in a counted match; the
\* report is returned and the pair is counted under (Flash, Unknown_99).
C17_Witness ==
    /\ endpoint = "spells" /\ pc = "done" /\ response.status = 200
    /\ \E i \in WithRowAndChampion :
         /\ match_log[i].rows[1].summoner1Id = 99
         /\ match_log[i].rows[1].summoner2Id = 4
    /\ <<SpellText.Flash, UnknownLabel(99)>> \in DOMAIN spell_games

\* The champions of a per-champion table all equal the filter, ignoring letter case
OnlyFiltered(table) == \A c \in DOMAIN table : Lower(c) = Lower(champion_name)

\* The spell part of C19: every counter entry comes from a match with the player's row
\* on the filtered champion, and no other match adds to matches_analyzed.
SpellFilterExact ==
    /\ SumOver(spell_games, DOMAIN spell_games) = Cardinality(WithRowAndChampion)
    /\ SumOver(spell_combinations, DOMAIN spell_combinations)
         = Cardinality(WithRowAndChampion)
    /\ OnlyFiltered(champion_spells)
    /\ response.status = 200 => result.matches_analyzed <= Cardinality(WithRowAndChampion)

\* The rune part of C19 for the set `counted` of fetched matches
RuneFilterExact(counted) ==
    /\ SumOver(primary_trees, DOMAIN primary_trees) = Cardinality(counted)
    /\ SumOver(secondary_trees, DOMAIN secondary_trees) = Cardinality(counted)
    /\ OnlyFiltered(champion_runes)
    /\ response.status = 200 => result.matches_analyzed = Cardinality(counted)

\* C19 as stated: with a champion filter set, in the rune and spell aggregations a match
\* is counted if and only if the player's row was found and its champion equals the
\* filter ignoring letter case; other matches update no counter and do not count toward
\* matches_analyzed.
C19_FilterCountsExactlyMatching ==
    champion_name # None =>
        /\ endpoint = "spells" => SpellFilterExact
        /\ endpoint = "runes" => RuneFilterExact(WithRowAndChampion)

\* C19 amended: as stated for the spell aggregation; in the rune aggregation a match is
\* counted if and only if the player's row was found, its champion equals the filter
\* ignoring letter case, and the row holds at least two rune styles.
C19_FilterCountsMatchingWithStyles ==
    champion_name # None =>
        /\ endpoint = "spells" => SpellFilterExact
        /\ endpoint = "runes" => RuneFilterExact(WithStyles)

\* C19 witness: the filter is "AHRI"; a match played on Lux and a match played on Ahri
\* with two styles were fetched, and the rune report counts the second alone.
C19_Witness ==
    /\ endpoint = "runes" /\ champion_name = RowText.AHRI /\ response.status = 200
    /\ Len(match_log) = 2 /\ WithRow = {1, 2}
    /\ match_log[1].rows[1].championName = RowText.Lux
    /\ match_log[2].rows[1].championName = RowText.Ahri
    /\ WithStyles = {2}
    /\ result.matches_analyzed = 1

\* The fetched matches that hold a row of the player, as the upstream saw them: in
\* the order of match_ids, the most recent match first
AnalyzedEntries == SelectSeq(match_log, AnsweredWithRowEntry)
MostRecent(n) == SubSeq(AnalyzedEntries, 1, Min(n, Len(AnalyzedEntries)))
WinsAmong(entries) == Cardinality({i \in 1..Len(entries) : entries[i].rows[1].win})
IdSet(records) == {records[i].match_id : i \in 1..Len(records)}

\* C24: in a performance report, the win rate of recent_5_games (recent_10_games) is
\* the share of wins among the 5 (10) most recent analyzed matches, all of them when
\* there are fewer, and detailed_matches are the 10 most recent analyzed matches.
C24_TrailingWindowsMostRecent ==
    (endpoint = "performance" /\ response.status = 200) =>
        /\ result.performance_trends.recent_5_games.win_rate =
               RoundHalfEven(WinsAmong(MostRecent(5)) * 1000, Len(MostRecent(5)))
        /\ result.performance_trends.recent_10_games.win_rate =
               RoundHalfEven(WinsAmong(MostRecent(10)) * 1000, Len(MostRecent(10)))
        /\ IdSet(result.detailed_matches) = IdSet(MostRecent(10))

\* The player's row of match `id`, as the upstream answered it
RowOfMatch(id) ==
    LET i == CHOOSE j \in Fetched : match_log[j].match_id = id IN match_log[i].rows[1]

\* The keystone ids recorded for matches before the i-th entry of rune_data
EarlierKeystones(i) == {rune_data[j].keystone_id : j \in 1..(i - 1)}

\* C25: in the rune aggregation no row makes the request fail; the keystone id recorded
\* for a counted match is the first selection of the primary style of that match's row,
\* and when that style has no selection it is not an id recorded for an earlier match.
C25_KeystoneOfSameMatch ==
    endpoint = "runes" =>
        /\ response.kind # "UnhandledException"
        /\ \A i \in 1..Len(rune_data) :
             LET primary_selections == RowOfMatch(rune_data[i].match_id).styles[1].selections
             IN  IF primary_selections # <<>>
                   THEN rune_data[i].keystone_id = primary_selections[1].perk
                   ELSE rune_data[i].keystone_id \notin EarlierKeystones(i)

\* The champions of the counted matches of the rune aggregation, and the counted
\* matches on one of them
CountedChampions == {rune_data[i].champion : i \in 1..Len(rune_data)}
CountedOn(c) == {i \in 1..Len(rune_data) : rune_data[i].champion = c}

\* C30: in a rune report champion_breakdown has exactly one entry for every champion
\* of the counted matches, with that champion's number of counted matches as
\* games_played, so that the games_played values add up to matches_analyzed.
C30_BreakdownComplete ==
    (endpoint = "runes" /\ response.status = 200) =>
        /\ result.matches_analyzed = Len(rune_data)
        /\ DOMAIN result.champion_breakdown = CountedChampions
        /\ \A c \in CountedChampions \cap DOMAIN result.champion_breakdown :
               result.champion_breakdown[c].games_played = Cardinality(CountedOn(c))

\* The value of a counter under a key, 0 when the key is absent
CountOf(counter, key) == IF key \in DOMAIN counter THEN counter[key] ELSE 0

RECURSIVE GamesAcross(_, _, _)
\* The games of the pair `combo` summed over the champions (or roles) `keys` of `by`
GamesAcross(by, keys, combo) ==
    IF keys = {} THEN 0
    ELSE LET k == CHOOSE x \in keys : TRUE
         IN  CountOf(by[k].games, combo) + GamesAcross(by, keys \ {k}, combo)

\* Every bucket of a pair of counters has at least one game and between 0 and
\* `games` wins
SoundBuckets(games, won) ==
    /\ DOMAIN won \subseteq DOMAIN games
    /\ \A combo \in DOMAIN games :
         games[combo] >= 1 /\ 0 <= CountOf(won, combo) /\ CountOf(won, combo) <= games[combo]

\* Every reported bucket has a win rate between 0 and 100 percent
RatesInRange(stats) ==
    \A label \in DOMAIN stats : 0 <= stats[label].win_rate /\ stats[label].win_rate <= 1000

\* C29: in the spell aggregation every bucket (overall, per champion, per role) has
\* games >= 1 and 0 <= wins <= games; the overall games add up to the number of
\* counted matches; for every spell pair the games of the champions and the games of
\* the roles both add up to the overall games of the pair; every reported win rate
\* lies between 0 and 100.
C29_SpellBucketsConsistent ==
    endpoint = "spells" =>
        /\ SoundBuckets(spell_games, spell_wins)
        /\ \A c \in DOMAIN champion_spells :
               SoundBuckets(champion_spells[c].games, champion_spells[c].wins)
        /\ \A r \in DOMAIN role_spells :
               SoundBuckets(role_spells[r].games, role_spells[r].wins)
        /\ SumOver(spell_games, DOMAIN spell_games) = Cardinality(WithRowAndChampion)
        /\ \A combo \in DOMAIN spell_games :
               /\ GamesAcross(champion_spells, DOMAIN champion_spells, combo)
                      = spell_games[combo]
               /\ GamesAcross(role_spells, DOMAIN role_spells, combo) = spell_games[combo]
        /\ \A c \in DOMAIN champion_spells :
               DOMAIN champion_spells[c].games \subseteq DOMAIN spell_games
        /\ \A r \in DOMAIN role_spells :
               DOMAIN role_spells[r].games \subseteq DOMAIN spell_games
        /\ response.status = 200 =>
               /\ RatesInRange(result.spell_stats)
               /\ \A c \in DOMAIN result.champion_breakdown :
                      RatesInRange(result.champion_breakdown[c])
               /\ \A r \in DOMAIN result.role_breakdown :
                      RatesInRange(result.role_breakdown[r])

\* C29 witness: a report over two counted matches with the same spell pair on two
\* champions, one won and one lost: the pair has 2 games and 1 win overall, a win rate
\* of 50 percent, and one game for each champion.
C29_Witness ==
    /\ endpoint = "spells" /\ response.status = 200
    /\ Cardinality(WithRowAndChampion) = 2
    /\ Cardinality(DOMAIN champion_spells) = 2
    /\ \E combo \in DOMAIN spell_games :
         /\ spell_games[combo] = 2 /\ CountOf(spell_wins, combo) = 1
         /\ result.spell_stats[ComboLabel(combo)].win_rate = 500
         /\ \A c \in DOMAIN champion_spells : CountOf(champion_spells[c].games, combo) = 1

\* ---------------------------------------------------------- champion catalog
\* Champion names of the catalog and of the scoring requests
ChampText ==
    [Malphite |-> <<77, 97, 108, 112, 104, 105, 116, 101>>,
     Jinx |-> <<74, 105, 110, 120>>,
     Thresh |-> <<84, 104, 114, 101, 115, 104>>,
     Garen |-> <<71, 97, 114, 101, 110>>,
     Zed |-> <<90, 101, 100>>,
     ZED |-> <<90, 69, 68>>,
     Ashe |-> <<65, 115, 104, 101>>,
     Dummy |-> <<68, 117, 109, 109, 121>>,
     Nobody |-> <<78, 111, 98, 111, 100, 121>>]

\* The keys of rank_difficulty_multiplier and other average_rank values
RankText ==
    [GOLD |-> <<71, 79, 76, 68>>,
     iron |-> <<105, 114, 111, 110>>,
     IRON |-> <<73, 82, 79, 78>>,
     BRONZE |-> <<66, 82, 79, 78, 90, 69>>,
     SILVER |-> <<83, 73, 76, 86, 69, 82>>,
     PLATINUM |-> <<80, 76, 65, 84, 73, 78, 85, 77>>,
     DIAMOND |-> <<68, 73, 65, 77, 79, 78, 68>>,
     MASTERp |-> <<77, 65, 83, 84, 69, 82, 43>>,
     CHALLENGER |-> <<67, 72, 65, 76, 76, 69, 78, 71, 69, 82>>]

\* str.upper() on ASCII text
Upper(s) == [i \in DOMAIN s |-> IF s[i] \in 97..122 THEN s[i] - 32 ELSE s[i]]

\* The length both handlers require of a team
TeamSize == 5
\* The value info.get(stat, 5) falls back to
DefaultStat == 5

\* One entry of the catalog's "data" object
Champ(name, tags, info) == [name |-> name, tags |-> tags, info |-> info]
Info(attack, defense, magic, difficulty) ==
    [attack |-> attack, defense |-> defense, magic |-> magic, difficulty |-> difficulty]

\* The "data" object upstream answers with, in the order of its items(): six champions
\* covering the six tags, an entry with no tag and zero stats, an entry with no "info"
Catalog ==
    <<Champ(ChampText.Malphite, <<"Tank", "Mage">>, Info(5, 9, 7, 2)),
      Champ(RowText.Lux, <<"Mage", "Support">>, Info(2, 4, 9, 5)),
      Champ(ChampText.Jinx, <<"Marksman">>, Info(9, 2, 4, 6)),
      Champ(ChampText.Thresh, <<"Support", "Tank">>, Info(5, 6, 6, 7)),
      Champ(ChampText.Garen, <<"Fighter", "Tank">>, Info(7, 7, 1, 5)),
      Champ(ChampText.Zed, <<"Assassin">>, Info(9, 2, 1, 7)),
      Champ(ChampText.Dummy, <<>>, Info(0, 0, 0, 0)),
      Champ(ChampText.Ashe, <<"Marksman", "Support">>, EmptyMap)>>

\* response.json().get("data", {}): the catalog, or nothing when "data" is absent
CatalogOptions == {Catalog, <<>>}

RECURSIVE get_champion_info(_, _)
\* Lines 81-85 (get_champion_data of get_match_outcome.py:82-86): the first entry whose
\* name equals name ignoring letter case, as <<entry>>, or None
get_champion_info(data, name) ==
    IF data = <<>> THEN None
    ELSE IF Lower(Head(data).name) = Lower(name) THEN <<Head(data)>>
    ELSE get_champion_info(Tail(data), name)

\* info.get(stat, 5)
StatOf(champ_info, stat) ==
    IF stat \in DOMAIN champ_info.info THEN champ_info.info[stat] ELSE DefaultStat

\* The index of the first name of `names` with no catalog entry, 0 when there is none
FirstMiss(data, names) ==
    IF \A i \in DOMAIN names : get_champion_info(data, names[i]) # None THEN 0
    ELSE CHOOSE i \in DOMAIN names :
            /\ get_champion_info(data, names[i]) = None
            /\ \A j \in 1..(i - 1) : get_champion_info(data, names[j]) # None

RECURSIVE AllTags(_, _)
\* all_tags.extend(tags) over the names, in order; names with no entry add nothing
AllTags(data, names) ==
    IF names = <<>> THEN <<>>
    ELSE LET champ_info == get_champion_info(data, Head(names)) IN
         (IF champ_info = None THEN <<>> ELSE champ_info[1].tags)
             \o AllTags(data, Tail(names))

RECURSIVE TotalStatSkipLast(_, _, _)
\* Faulty variant of TotalStat: the last champion is left out of the sum.
TotalStatSkipLast(data, names, stat) ==
    IF Len(names) <= 1 THEN 0
    ELSE StatOf(get_champion_info(data, Head(names))[1], stat)
             + TotalStatSkipLast(data, Tail(names), stat)

RECURSIVE TotalStat(_, _, _)
\* total_stats[stat] += value over the names, in order
TotalStat(data, names, stat) ==
    IF names = <<>> THEN 0
    ELSE StatOf(get_champion_info(data, Head(names))[1], stat)
             + TotalStat(data, Tail(names), stat)

\* set(all_tags)
TagSet(all_tags) == {all_tags[i] : i \in DOMAIN all_tags}

\* ---------------------------------------------- get_team_composition handler
\* TEAM_ARCHETYPES, in the order of its items()
TEAM_ARCHETYPES ==
    <<[name |-> "Poke", required_tags |-> <<"Mage">>, bonus_tags |-> <<"Marksman">>],
      [name |-> "Engage", required_tags |-> <<"Tank">>,
       bonus_tags |-> <<"Fighter", "Assassin">>],
      [name |-> "Protect", required_tags |-> <<"Support", "Marksman">>,
       bonus_tags |-> <<"Tank">>],
      [name |-> "Split Push", required_tags |-> <<"Fighter">>,
       bonus_tags |-> <<"Assassin">>],
      [name |-> "Teamfight", required_tags |-> <<"Tank", "Mage">>,
       bonus_tags |-> <<"Support">>],
      [name |-> "Pick", required_tags |-> <<"Assassin">>, bonus_tags |-> <<"Support">>]>>

\* Lines 128-136: 3 per required tag present, 1 per bonus tag present
ArchetypeScore(requirements, unique_tags) ==
    3 * Cardinality({i \in DOMAIN requirements.required_tags :
                        requirements.required_tags[i] \in unique_tags})
      + Cardinality({i \in DOMAIN requirements.bonus_tags :
                        requirements.bonus_tags[i] \in unique_tags})

\* Faulty variant of Beats: a score equal to the best one replaces it.
BeatsOrTies(score, archetype_score) == score >= archetype_score

\* Line 138: `if score > archetype_score`
Beats(score, archetype_score) == score > archetype_score

RECURSIVE BestArchetype(_, _, _, _)
\* Lines 127-140: the for loop over TEAM_ARCHETYPES.items()
BestArchetype(table, unique_tags, team_archetype, archetype_score) ==
    IF table = <<>> THEN team_archetype
    ELSE LET score == ArchetypeScore(Head(table), unique_tags) IN
         IF Beats(score, archetype_score)
           THEN BestArchetype(Tail(table), unique_tags, Head(table).name, score)
           ELSE BestArchetype(Tail(table), unique_tags, team_archetype, archetype_score)

\* Lines 124-140
TeamArchetype(unique_tags) == BestArchetype(TEAM_ARCHETYPES, unique_tags, "Balanced", 0)

\* Line 120: round(value / 5, 1), as a count of tenths
TeamAverage(value) == RoundHalfEven(value * 10, TeamSize)

\* Faulty variant of RoleCount: repeated tags are counted again.
RoleCountWithRepeats(all_tags) == Len(all_tags)

\* Lines 123 and 164: len(set(all_tags))
RoleCount(all_tags) == Cardinality(TagSet(all_tags))

\* [x] if the condition holds, else []
When(condition, text) == IF condition THEN <<text>> ELSE <<>>

\* Lines 143-174: the strengths list, in the order of its appends
Strengths(averages, unique_tags, role_count) ==
    When(averages.attack >= 70, "High physical damage output")
      \o When(averages.magic >= 70, "Strong magic damage")
      \o When(averages.defense >= 70, "Tanky frontline")
      \o When(role_count >= 4, "Diverse team composition")
      \o When("Tank" \in unique_tags /\ "Marksman" \in unique_tags,
              "Good engage and sustained damage")
      \o When("Support" \in unique_tags, "Strong utility and vision control")

\* Lines 144-176: the weaknesses list, in the order of its appends
Weaknesses(averages, unique_tags, role_count) ==
    When(averages.attack < 70 /\ averages.attack <= 40, "Low physical damage")
      \o When(averages.magic < 70 /\ averages.magic <= 40, "Limited magic damage")
      \o When(averages.defense < 70 /\ averages.defense <= 40, "Fragile team composition")
      \o When(role_count < 4 /\ role_count <= 2, "Limited role diversity")
      \o When("Assassin" \in unique_tags /\ "Tank" \notin unique_tags,
              "Lack of frontline protection")

\* The catalog names of the team, in the order of the request (team_data)
TeamNames(data, names) == [i \in DOMAIN names |-> get_champion_info(data, names[i])[1].name]

\* Lines 276-300: matchup_analysis; enemy names with no catalog entry add no tag
MatchupAnalysis(data, unique_tags, enemy) ==
    LET enemy_unique_tags == TagSet(AllTags(data, enemy)) IN
    [enemy_roles |-> enemy_unique_tags,
     favorable_matchups |->
         When("Tank" \in unique_tags /\ "Marksman" \in enemy_unique_tags,
              "Your tanks can engage on their carries")
           \o When("Assassin" \in unique_tags /\ "Mage" \in enemy_unique_tags,
                   "Your assassins can target their mages"),
     difficult_matchups |->
         When("Assassin" \in enemy_unique_tags /\ "Tank" \notin unique_tags,
              "Enemy assassins can target your carries")]

\* Lines 87-273: the report of a team whose names all have a catalog entry
TeamReport(data, names) ==
    LET all_tags == AllTags(data, names)
        unique_tags == TagSet(all_tags)
        team_averages == [stat \in {"attack", "defense", "magic", "difficulty"} |->
                             TeamAverage(TotalStat(data, names, stat))]
        role_count == RoleCount(all_tags)
    IN  [champions |-> TeamNames(data, names),
         archetype |-> TeamArchetype(unique_tags),
         averages |-> team_averages,
         role_diversity |-> role_count,
         unique_roles |-> unique_tags,
         strengths |-> Strengths(team_averages, unique_tags, role_count),
         weaknesses |-> Weaknesses(team_averages, unique_tags, role_count)]

\* The names requests are made of: the catalog's names, one of them in another letter
\* case, and a name the catalog does not hold
InputNames ==
    <<ChampText.Malphite, RowText.Lux, ChampText.Jinx, ChampText.Thresh, ChampText.Garen, ChampText.ZED, ChampText.Dummy, ChampText.Ashe, ChampText.Nobody>>

\* Five different names in the order of InputNames, and teams of one or two names
Rosters ==
    {<<InputNames[a], InputNames[b], InputNames[c], InputNames[d], InputNames[e]>> :
        <<a, b, c, d, e>> \in
            {t \in (DOMAIN InputNames) \X (DOMAIN InputNames) \X (DOMAIN InputNames)
                     \X (DOMAIN InputNames) \X (DOMAIN InputNames) :
                t[1] < t[2] /\ t[2] < t[3] /\ t[3] < t[4] /\ t[4] < t[5]}}
      \cup {<<InputNames[a], InputNames[a], InputNames[a], InputNames[b], InputNames[b]>> :
               a \in DOMAIN InputNames, b \in DOMAIN InputNames}

\* The first n names of a roster repeated in a cycle
Take(roster, n) == [i \in 1..n |-> roster[((i - 1) % Len(roster)) + 1]]

\* The champions lists of the requests, of every length up to MaxTeamLen
ChampionLists == {Take(roster, n) : roster \in Rosters, n \in 0..MaxTeamLen}

\* The enemy_champions values of the requests: None, or a list of every length up
\* to MaxTeamLen, of catalog names or with a name the catalog does not hold
EnemyOptions ==
    {None} \cup
    {<<Take(roster, n)>> :
        roster \in {<<ChampText.Jinx, RowText.Lux, ChampText.ZED, ChampText.Ashe, ChampText.Garen>>,
                    <<ChampText.Jinx, ChampText.Nobody, ChampText.ZED, ChampText.Ashe, ChampText.Garen>>},
        n \in 0..MaxTeamLen}

\* `if enemy_champions`: neither None nor an empty list
EnemyGiven == enemy_champions # None /\ enemy_champions[1] # <<>>

\* The variables no scoring handler writes
resolverRest == <<region, region_lower, summoner_id, puuid, platforms, platform_idx,
                  last_error, summoner_data, ranked_data, successful_platform>>
aggRest == <<match_count, champion_name, match_ids, match_idx, match_status,
             player_data, match_log, perfVars, spellVars, runeVars>>
requestVars == <<champions, enemy_champions, blue_team, red_team, game_mode,
                 average_rank>>
analysisVars == <<blue_analysis, red_analysis, blue_score, red_score>>

\* Faulty variant of WrongSize: shorter teams pass.
WrongSizeOnlyLonger(team) == Len(team) > TeamSize

\* `len(team) != 5`
WrongSize(team) == Len(team) # TeamSize

\* Lines 69-73: the two length checks, before the try block.
ClassifyStart ==
    /\ endpoint = "team_composition" /\ pc = "start"
    /\ IF WrongSize(champions) \/ (EnemyGiven /\ WrongSize(enemy_champions[1]))
         THEN response' = HttpError(400, "InvalidInput") /\ pc' = "done"
         ELSE pc' = "fetch" /\ UNCHANGED response
    /\ UNCHANGED <<singleVars, endpoint, resolverVars, aggVars, scoreVars>>

\* Lines 77-79 and 305-307 (get_match_outcome.py:78-80 and 272-274): the catalog fetch;
\* requests.RequestException covers an error status and a transport error.
FetchCatalog(ep) ==
    /\ endpoint = ep /\ pc = "fetch"
    /\ \E outcome \in FetchOutcomes, data \in CatalogOptions :
         /\ outcome # "ok" => data = <<>>
         /\ upstream_log' = Logged("data_dragon", "champions", outcome)
         /\ IF outcome = "ok"
              THEN /\ champions_data' = data
                   /\ pc' = "analyze"
                   /\ UNCHANGED response
              ELSE /\ response' = HttpError(500, "UpstreamUnavailable")
                   /\ pc' = "done"
                   /\ UNCHANGED champions_data
    /\ UNCHANGED <<singleVars, endpoint, resolverRest, aggVars, requestVars, analysisVars, lookups>>

ClassifyFetch == FetchCatalog("team_composition")

\* Lines 87-303: ChampionNotFound at the first name with no catalog entry, else the
\* report, with the matchup analysis when an enemy team was given.
ClassifyFinish ==
    /\ endpoint = "team_composition" /\ pc = "analyze"
    /\ LET miss == FirstMiss(champions_data, champions) IN
       IF miss # 0
         THEN /\ lookups' = lookups \o SubSeq(champions, 1, miss)
              /\ response' = HttpError(404, "ChampionNotFound")
              /\ UNCHANGED result
         ELSE /\ lookups' = lookups \o champions
                               \o (IF EnemyGiven THEN enemy_champions[1] ELSE <<>>)
              /\ response' = [status |-> 200, kind |-> "ok", platform |-> None,
                              error |-> NoError]
              /\ result' =
                   LET report == TeamReport(champions_data, champions) IN
                   IF EnemyGiven
                     THEN report @@ ("matchup_analysis" :>
                              MatchupAnalysis(champions_data, report.unique_roles,
                                              enemy_champions[1]))
                     ELSE report
    /\ pc' = "done"
    /\ UNCHANGED <<singleVars, endpoint, resolverVars, aggRest, requestVars, analysisVars,
                   champions_data>>

\* ------------------------------------------------- get_match_outcome handler
\* CHAMPION_SYNERGIES.get(tag, [])
CHAMPION_SYNERGIES(tag) ==
    CASE tag = "Tank"     -> <<"Marksman", "Mage">>
      [] tag = "Fighter"  -> <<"Support", "Mage">>
      [] tag = "Assassin" -> <<"Tank", "Support">>
      [] tag = "Mage"     -> <<"Tank", "Support">>
      [] tag = "Marksman" -> <<"Tank", "Support">>
      [] tag = "Support"  -> <<"Marksman", "Mage">>
      [] OTHER            -> <<>>

\* Faulty variant of SynergyBonus: only the first entry of a synergy list counts.
SynergyBonusFirstPartner(unique_tags) ==
    2 * Cardinality(unique_tags)
      + 3 * Cardinality({tag \in unique_tags :
                            /\ CHAMPION_SYNERGIES(tag) # <<>>
                            /\ CHAMPION_SYNERGIES(tag)[1] \in unique_tags})

\* Lines 115-123: 2 per distinct tag, 3 per tag and entry of its synergy list that is
\* also a tag of the team
SynergyBonus(unique_tags) ==
    2 * Cardinality(unique_tags)
      + 3 * Cardinality({pair \in unique_tags \X (1..2) :
                            /\ pair[2] \in DOMAIN CHAMPION_SYNERGIES(pair[1])
                            /\ CHAMPION_SYNERGIES(pair[1])[pair[2]] \in unique_tags})

\* Lines 88-143: analyze_team for a team whose names all have a catalog entry; the
\* rounded averages are counts of tenths
analyze_team(data, team_champions) ==
    LET unique_tags == TagSet(AllTags(data, team_champions)) IN
    [attack |-> TeamAverage(TotalStat(data, team_champions, "attack")),
     defense |-> TeamAverage(TotalStat(data, team_champions, "defense")),
     magic |-> TeamAverage(TotalStat(data, team_champions, "magic")),
     difficulty |-> TeamAverage(TotalStat(data, team_champions, "difficulty")),
     synergy |-> SynergyBonus(unique_tags),
     team_tags |-> unique_tags]

\* Scores are counted in 1/ScoreUnit: the least unit in which a third of a sum of
\* tenths (line 156) and a product of tenths by tenths (line 177) are whole numbers
ScoreUnit == 300

\* rank_difficulty_multiplier.get(average_rank.upper(), 0.8), in tenths
RankMultiplier(rank) ==
    LET key == Upper(rank) IN
    CASE key = RankText.IRON     -> 5
      [] key = RankText.BRONZE   -> 6
      [] key = RankText.SILVER   -> 7
      [] key = RankText.GOLD     -> 8
      [] key = RankText.PLATINUM -> 9
      [] key = RankText.DIAMOND  -> 10
      [] key = RankText.MASTERp  -> 11
      [] OTHER            -> 8

\* Lines 181-195: the ARAM bonus of one team
AramBonus(team_tags) ==
    (IF "Mage" \in team_tags THEN 5 ELSE 0)
      + (IF "Marksman" \in team_tags THEN 3 ELSE 0)
      + (IF "Support" \in team_tags THEN 4 ELSE 0)

\* Lines 150-195: a team's score before the random adjustment, in 1/ScoreUnit
CompositeScore(analysis, rank, mode) ==
    20 * (analysis.attack + analysis.defense + analysis.magic)
      + ScoreUnit * analysis.synergy
      + 3 * analysis.difficulty * RankMultiplier(rank)
      + (IF mode = "ARAM" THEN ScoreUnit * AramBonus(analysis.team_tags) ELSE 0)

\* random.uniform(-5, 5) draws a value in [-MaxAdjustment, MaxAdjustment]
MaxAdjustment == 5

\* The draws of the model, in 1/ScoreUnit: the two ends, 0, and two values that put a
\* quotient on a rounding tie (5621 / 22000 = 25.55 %)
Draws == {-MaxAdjustment * ScoreUnit, -141, 0, 941, MaxAdjustment * ScoreUnit}

\* Python floats are binary doubles: the double an operation returns is the exact
\* result (0), or the nearest double below (-1) or above (1) it
FloatSides == {-1, 0, 1}

\* Line 203: (blue_score / total_score * 100) if total_score > 0 else 50, as a fraction
WinProbability(score, total_score) ==
    IF total_score > 0 THEN [num |-> 100 * score, den |-> total_score]
    ELSE [num |-> 50, den |-> 1]

\* Line 207: max(25, min(75, blue_win_prob))
Clamped(prob) ==
    IF prob.num > 75 * prob.den THEN [num |-> 75, den |-> 1]
    ELSE IF prob.num < 25 * prob.den THEN [num |-> 25, den |-> 1]
    ELSE prob

\* The int the clamp or the else branch of line 203 put in place of a quotient
IsWhole(prob) == prob.den = 1

\* Lines 243-244: round(x, 1) of the double that lies on `side` of the exact num / den,
\* as a count of tenths; only on a tie does the side of the double decide
RoundDouble(prob, side) ==
    IF 2 * ((10 * prob.num) % prob.den) = prob.den /\ side # 0
      THEN ((10 * prob.num) \div prob.den) + (IF side > 0 THEN 1 ELSE 0)
      ELSE RoundHalfEven(10 * prob.num, prob.den)

\* The teams the outcome requests are made of: one champion five times, the five of the
\* example team, the entry with zero stats five times, a team with an unknown name
OutcomeRosters ==
    {<<ChampText.ZED, ChampText.ZED, ChampText.ZED, ChampText.ZED, ChampText.ZED>>,
     <<ChampText.Malphite, RowText.Lux, ChampText.Jinx, ChampText.Thresh, ChampText.Garen>>,
     <<ChampText.Dummy, ChampText.Dummy, ChampText.Dummy, ChampText.Dummy, ChampText.Dummy>>,
     <<ChampText.Malphite, RowText.Lux, ChampText.Nobody, ChampText.Thresh, ChampText.Garen>>}

OutcomeTeams == {Take(roster, n) : roster \in OutcomeRosters, n \in 0..MaxTeamLen}

\* The game_mode and average_rank values of the requests
GameModes == {"CLASSIC", "ARAM"}
Ranks == {RankText.GOLD, RankText.iron, RankText.MASTERp, RankText.CHALLENGER}

\* Line 73: the length check of both teams, before the try block.
PredictStart ==
    /\ endpoint = "match_outcome" /\ pc = "start"
    /\ IF WrongSize(blue_team) \/ WrongSize(red_team)
         THEN response' = HttpError(400, "InvalidInput") /\ pc' = "done"
         ELSE pc' = "fetch" /\ UNCHANGED response
    /\ UNCHANGED <<singleVars, endpoint, resolverVars, aggVars, scoreVars>>

PredictFetch == FetchCatalog("match_outcome")

\* Lines 146-195: ChampionNotFound at the first name with no catalog entry, blue team
\* first; else the two analyses and the two scores before the random adjustment.
PredictAnalyze ==
    /\ endpoint = "match_outcome" /\ pc = "analyze"
    /\ LET blue_miss == FirstMiss(champions_data, blue_team)
           red_miss == FirstMiss(champions_data, red_team)
       IN
       IF blue_miss # 0 \/ red_miss # 0
         THEN /\ lookups' = lookups \o
                    (IF blue_miss # 0 THEN SubSeq(blue_team, 1, blue_miss)
                     ELSE blue_team \o SubSeq(red_team, 1, red_miss))
              /\ response' = HttpError(404, "ChampionNotFound")
              /\ pc' = "done"
              /\ UNCHANGED analysisVars
         ELSE /\ lookups' = lookups \o blue_team \o red_team
              /\ blue_analysis' = analyze_team(champions_data, blue_team)
              /\ red_analysis' = analyze_team(champions_data, red_team)
              /\ blue_score' = CompositeScore(blue_analysis', average_rank, game_mode)
              /\ red_score' = CompositeScore(red_analysis', average_rank, game_mode)
              /\ pc' = "predict"
              /\ UNCHANGED response
    /\ UNCHANGED <<singleVars, endpoint, resolverVars, aggVars, requestVars, champions_data>>

\* Lines 197-270: the random adjustments, the two probabilities and the prediction.
PredictFinish ==
    /\ endpoint = "match_outcome" /\ pc = "predict"
    /\ \E blue_draw \in Draws, red_draw \in Draws,
          blue_side \in FloatSides, red_side \in FloatSides :
          LET blue == blue_score + blue_draw
              red == red_score + red_draw
              blue_win_prob == Clamped(WinProbability(blue, blue + red))
              red_win_prob == [num |-> 100 * blue_win_prob.den - blue_win_prob.num,
                               den |-> blue_win_prob.den]
          IN
          \* an int, or a double that is the exact quotient, is subtracted exactly
          /\ (IsWhole(blue_win_prob) \/ blue_side = 0) => (blue_side = 0 /\ red_side = 0)
          /\ blue_score' = blue
          /\ red_score' = red
          /\ result' =
               [blue_team_win_probability |-> RoundDouble(blue_win_prob, blue_side),
                red_team_win_probability |-> RoundDouble(red_win_prob, red_side),
                blue_team |-> blue_analysis,
                red_team |-> red_analysis]
    /\ response' = [status |-> 200, kind |-> "ok", platform |-> None, error |-> NoError]
    /\ pc' = "done"
    /\ UNCHANGED <<singleVars, endpoint, resolverVars, aggRest, requestVars, blue_analysis,
                   red_analysis, champions_data, lookups>>

\* ------------------------------------------------------ scoring specification
InitScoring ==
    /\ endpoint \in {"team_composition", "match_outcome"}
    /\ pc = "start"
    /\ response = NoResponse
    /\ region = None /\ region_lower = None
    /\ summoner_id = None /\ puuid = None
    /\ platforms = <<>> /\ platform_idx = 1
    /\ last_error = NoError
    /\ summoner_data = "None" /\ ranked_data = "None"
    /\ successful_platform = None
    /\ upstream_log = <<>>
    /\ AggIdle
    /\ SingleIdle
    /\ champions \in (IF endpoint = "team_composition" THEN ChampionLists ELSE {<<>>})
    /\ enemy_champions \in (IF endpoint = "team_composition" THEN EnemyOptions ELSE {None})
    /\ blue_team \in (IF endpoint = "match_outcome" THEN OutcomeTeams ELSE {<<>>})
    /\ red_team \in (IF endpoint = "match_outcome" THEN OutcomeTeams ELSE {<<>>})
    /\ game_mode \in (IF endpoint = "match_outcome" THEN GameModes ELSE {"CLASSIC"})
    /\ average_rank \in (IF endpoint = "match_outcome" THEN Ranks ELSE {<<>>})
    /\ blue_analysis = <<>> /\ red_analysis = <<>>
    /\ blue_score = 0 /\ red_score = 0
    /\ champions_data = <<>> /\ lookups = <<>>

NextScoring ==
    \/ ClassifyStart
    \/ ClassifyFetch
    \/ ClassifyFinish
    \/ PredictStart
    \/ PredictFetch
    \/ PredictAnalyze
    \/ PredictFinish

SpecScoring == InitScoring /\ [][NextScoring]_vars

\* ------------------------------------------------------------ scoring claims
\* A classification request that was answered with its report
Classified == endpoint = "team_composition" /\ pc = "done" /\ response.status = 200

\* The tags of the catalog entries the names of `names` stand for
TagsOfTeam(names) ==
    UNION {TagSet(champions_data[i].tags) :
             i \in {k \in DOMAIN champions_data :
                       \E j \in DOMAIN names :
                           Lower(champions_data[k].name) = Lower(names[j])}}

\* The score the claim gives the archetype at position i of the table for a tag set
ClaimedScore(i, tags) ==
    3 * Cardinality(TagSet(TEAM_ARCHETYPES[i].required_tags) \cap tags)
      + Cardinality(TagSet(TEAM_ARCHETYPES[i].bonus_tags) \cap tags)

\* The positions of the archetypes no other archetype outscores
TopArchetypes(tags) ==
    {i \in DOMAIN TEAM_ARCHETYPES :
        \A j \in DOMAIN TEAM_ARCHETYPES : ClaimedScore(j, tags) <= ClaimedScore(i, tags)}

\* C12: the archetype of a classified team is the one with the highest score, 3 per
\* required tag present plus 1 per bonus tag present; of several with the highest score
\* it is the first in the table order Poke, Engage, Protect, Split Push, Teamfight, Pick;
\* it is Balanced exactly when every archetype scores 0.
C12_ArchetypeClassification ==
    Classified =>
        LET tags == TagsOfTeam(champions)
            top == TopArchetypes(tags)
            first == CHOOSE i \in top : \A j \in top : i <= j
            all_zero == \A i \in DOMAIN TEAM_ARCHETYPES : ClaimedScore(i, tags) = 0
        IN  /\ [i \in DOMAIN TEAM_ARCHETYPES |-> TEAM_ARCHETYPES[i].name]
                 = <<"Poke", "Engage", "Protect", "Split Push", "Teamfight", "Pick">>
            /\ result.archetype = "Balanced" <=> all_zero
            /\ ~all_zero => result.archetype = TEAM_ARCHETYPES[first].name

\* C12 witness: five times Thresh (Support, Tank) scores 4 for Protect and for
\* Teamfight, 3 for Engage and 1 for Pick; the archetype is Protect.
C12_Witness ==
    /\ Classified
    /\ TagsOfTeam(champions) = {"Support", "Tank"}
    /\ TopArchetypes(TagsOfTeam(champions)) = {3, 5}
    /\ result.archetype = "Protect"

\* The fields of a report the claim names
OrderFreeFields(report) ==
    <<report.averages, report.archetype, report.role_diversity, report.strengths,
      report.weaknesses>>

\* The list `names` rearranged by the permutation f of its positions
Rearranged(names, f) == [i \in DOMAIN names |-> names[f[i]]]

\* C13: the averages, the archetype, role_diversity, the strengths and the weaknesses of
\* a classified team are those of every rearrangement of the same five names.
C13_OrderInvariant ==
    Classified =>
        \A f \in Permutations(DOMAIN champions) :
            OrderFreeFields(TeamReport(champions_data, Rearranged(champions, f)))
                = OrderFreeFields(result)

\* C13 witness: a classified team of five different champions whose stats differ.
C13_Witness ==
    /\ Classified
    /\ champions = <<ChampText.Malphite, RowText.Lux, ChampText.Jinx, ChampText.Thresh, ChampText.Garen>>
    /\ result.averages.attack = 56 /\ result.averages.magic = 54
    /\ result.role_diversity = 5

\* An outcome request that was answered with its prediction
Predicted == endpoint = "match_outcome" /\ pc = "done" /\ response.status = 200

\* C14: for all teams, game modes, ranks and pairs of random adjustments in [-5, 5],
\* also those that make a score or the total score zero or negative, the two reported
\* win probabilities (counted in tenths) add up to 100 and each lies in [25, 75].
C14_ProbabilitiesSumTo100 ==
    Predicted =>
        /\ result.blue_team_win_probability + result.red_team_win_probability = 1000
        /\ result.blue_team_win_probability \in 250..750
        /\ result.red_team_win_probability \in 250..750

\* A request the exactly-5 rule rejects, where `enemy_counts` tells whether the enemy
\* list of the request is one the rule applies to
WrongTeamSize(enemy_counts) ==
    \/ /\ endpoint = "team_composition"
       /\ \/ Len(champions) # 5
          \/ enemy_champions # None /\ enemy_counts /\ Len(enemy_champions[1]) # 5
    \/ /\ endpoint = "match_outcome"
       /\ (Len(blue_team) # 5 \/ Len(red_team) # 5)

\* Nothing was fetched or looked up, and the answer, once given, is InvalidInput (400)
RejectedFirst ==
    /\ upstream_log = <<>> /\ lookups = <<>> /\ champions_data = <<>>
    /\ pc \in {"start", "done"}
    /\ pc = "done" => (response.status = 400 /\ response.kind = "InvalidInput")

\* C15 as stated: a classification request whose champions list, or whose supplied enemy
\* list, has a length other than 5, and an outcome request whose blue or red team has a
\* length other than 5, fails with InvalidInput (400) before the catalog is fetched or
\* any champion is looked up.
C15_AnyWrongSizeRejected == WrongTeamSize(TRUE) => RejectedFirst

\* C15 amended: as stated, for a supplied enemy list that is not empty; an empty enemy
\* list is taken as no enemy list.
C15_WrongSizeRejected ==
    /\ WrongTeamSize(enemy_champions # <<<<>>>>) => RejectedFirst
    /\ (endpoint = "team_composition" /\ Len(champions) = 5
          /\ enemy_champions = <<<<>>>> /\ pc = "done") =>
         (upstream_log # <<>> /\ response.status # 400)

\* C15 witness: five champions and an enemy list of six names; the request ended with
\* 400 and nothing was fetched.
C15_Witness ==
    /\ endpoint = "team_composition" /\ pc = "done"
    /\ Len(champions) = 5
    /\ enemy_champions # None /\ Len(enemy_champions[1]) = 6
    /\ response.status = 400 /\ response.kind = "InvalidInput"
    /\ upstream_log = <<>> /\ lookups = <<>>

\* The name has no entry in the catalog that was fetched
NoEntry(name) ==
    \A i \in DOMAIN champions_data : Lower(champions_data[i].name) # Lower(name)

\* The request passed the length checks, the catalog was fetched, and the handler ended
Analyzed ==
    /\ pc = "done" /\ upstream_log # <<>>
    /\ upstream_log[Len(upstream_log)].outcome = "ok"

\* The answer is ChampionNotFound (404) and no report was made
AbortedNotFound ==
    response.status = 404 /\ response.kind = "ChampionNotFound" /\ result = EmptyMap

\* C16: when a name of the own team, the blue team, the red team or the enemy team has
\* no catalog entry, classification and outcome prediction end with ChampionNotFound
\* (404) and return no analysis.
C16_LookupMissesAbort ==
    /\ (endpoint = "team_composition" /\ Analyzed) =>
         /\ (\E i \in DOMAIN champions : NoEntry(champions[i])) => AbortedNotFound
         /\ (enemy_champions # None
               /\ \E i \in DOMAIN enemy_champions[1] : NoEntry(enemy_champions[1][i])) =>
              AbortedNotFound
    /\ (endpoint = "match_outcome" /\ Analyzed
          /\ \E team \in {blue_team, red_team} : \E i \in DOMAIN team : NoEntry(team[i])) =>
         AbortedNotFound

\* The entries of a list of the report
Listed(list) == {list[i] : i \in DOMAIN list}

\* C18: role_diversity of a classified team is the number of distinct tags of its five
\* members; from 4 on the strengths hold "Diverse team composition", up to 2 the
\* weaknesses hold "Limited role diversity", and no report holds both.
C18_RoleDiversity ==
    Classified =>
        /\ result.role_diversity = Cardinality(TagsOfTeam(champions))
        /\ result.role_diversity >= 4 =>
             "Diverse team composition" \in Listed(result.strengths)
        /\ result.role_diversity <= 2 =>
             "Limited role diversity" \in Listed(result.weaknesses)
        /\ ~ /\ "Diverse team composition" \in Listed(result.strengths)
             /\ "Limited role diversity" \in Listed(result.weaknesses)

\* C18 witness: Malphite, Lux, Jinx, Thresh, Garen hold the tags Tank, Mage, Support,
\* Marksman, Fighter, nine tags in all: role_diversity is 5 and the team is diverse.
C18_Witness ==
    /\ Classified
    /\ champions = <<ChampText.Malphite, RowText.Lux, ChampText.Jinx, ChampText.Thresh, ChampText.Garen>>
    /\ Len(AllTags(champions_data, champions)) = 9
    /\ result.role_diversity = 5
    /\ "Diverse team composition" \in Listed(result.strengths)

\* The partners the synergy table lists for a tag
ClaimedPartners(tag) ==
    CASE tag \in {"Tank", "Support"}                 -> {"Marksman", "Mage"}
      [] tag = "Fighter"                             -> {"Support", "Mage"}
      [] tag \in {"Assassin", "Mage", "Marksman"}    -> {"Tank", "Support"}
      [] OTHER                                       -> {}

\* 2 per distinct tag and 3 per ordered pair (tag, partner) of distinct tags of the team
\* where the table lists partner for tag
ClaimedSynergy(tags) ==
    2 * Cardinality(tags)
      + 3 * Cardinality({pair \in tags \X tags : pair[2] \in ClaimedPartners(pair[1])})

\* The teams were analyzed and the scores are not yet adjusted
TeamsAnalyzed == endpoint = "match_outcome" /\ pc = "predict"

\* C26: the synergy of an analyzed team is 2 per distinct tag plus 3 per ordered pair
\* (tag, partner) of the synergy table with both in the team's tag set; it is a natural
\* number, the same for every rearrangement of the team and for every team of catalog
\* champions with the same tag set.
C26_SynergyScore ==
    TeamsAnalyzed =>
        /\ blue_analysis.synergy = ClaimedSynergy(TagsOfTeam(blue_team))
        /\ red_analysis.synergy = ClaimedSynergy(TagsOfTeam(red_team))
        /\ \A f \in Permutations(DOMAIN blue_team) :
               analyze_team(champions_data, Rearranged(blue_team, f)).synergy
                   = blue_analysis.synergy
        /\ \A roster \in Rosters :
               FirstMiss(champions_data, roster) = 0 =>
                   LET synergy == analyze_team(champions_data, roster).synergy IN
                   /\ synergy \in Nat
                   /\ synergy = ClaimedSynergy(TagsOfTeam(roster))
                   /\ TagsOfTeam(roster) = TagsOfTeam(blue_team) =>
                          synergy = blue_analysis.synergy

\* C26 witness: the team of Malphite, Lux, Jinx, Thresh and Garen has five distinct
\* tags carried nine times and ten pairs of the table, synergy 40; five times Zed has
\* one tag and no pair, synergy 2.
C26_Witness ==
    /\ TeamsAnalyzed
    /\ blue_team = <<ChampText.Malphite, RowText.Lux, ChampText.Jinx, ChampText.Thresh,
                     ChampText.Garen>>
    /\ Len(AllTags(champions_data, blue_team)) = 9
    /\ blue_analysis.synergy = 40
    /\ red_analysis.synergy = 2


\* ------------------------------------------------- single-resource handlers
\* Item names of the item catalog and the prefix of the name of an unknown item
ItemText ==
    [Boots |-> <<66, 111, 111, 116, 115>>,
     Unknown_Item_ |-> <<85, 110, 107, 110, 111, 119, 110, 32, 73, 116, 101, 109, 32>>]

\* requests.RequestException / httpx.RequestError: no answer came back
ConnectionError == [status |-> 0, content |-> "none"]

\* The answers of the match API to one request: a status, with a JSON body or with an
\* empty one, or no answer
UpstreamAnswers ==
    {[status |-> s, content |-> c] : s \in {200, 403, 404, 500}, c \in {"json", "empty"}}
        \cup {ConnectionError}

\* The answers of the asset host (Data Dragon) to one request
AssetAnswers ==
    {[status |-> 200, content |-> "json"], [status |-> 500, content |-> "json"],
     ConnectionError}

Succeeded(answer) == answer.status = 200 /\ answer.content = "json"

\* get_match_details_by_id.py lines 73-98 (get_match_history_by_id.py 79-98,
\* get_match_timeline.py 79-82, get_match_participants_info.py 85-93 and 157-159):
\* the response of the handler to an answer that is not a 200 with a body
Answered(answer) ==
    IF answer = ConnectionError THEN HttpError(500, "UpstreamUnavailable")
    ELSE IF answer.content = "empty" THEN HttpError(500, "EmptyResponse")
    ELSE CASE answer.status = 403 -> HttpError(403, "Forbidden")
           [] answer.status = 404 -> HttpError(404, "ResourceNotFound")
           [] OTHER               -> HttpError(answer.status, "UpstreamStatus")

Ok == [status |-> 200, kind |-> "ok", platform |-> None, error |-> NoError]

singleRest == <<summoner_id, puuid, platforms, platform_idx, last_error, summoner_data,
                ranked_data, successful_platform>>

\* A handler that validates the region, sends one request and maps the answer
SingleFetch(ep, resource) ==
    /\ endpoint = ep /\ pc = "start"
    /\ region_lower' = Lower(region)
    /\ IF ~ValidateRegionRouting(Lower(region))
         THEN /\ response' = HttpError(400, "InvalidRegion")
              /\ UNCHANGED <<upstream_log, result>>
         ELSE \E answer \in UpstreamAnswers :
                /\ upstream_log' = Logged(Lower(region), resource, answer)
                /\ IF Succeeded(answer)
                     THEN response' = Ok /\ result' = [payload |-> resource]
                     ELSE response' = Answered(answer) /\ UNCHANGED result
    /\ pc' = "done"
    /\ UNCHANGED <<singleVars, scoreVars, endpoint, region, singleRest, match_count,
                   champion_name, match_ids, match_idx, match_status, player_data,
                   match_log, perfVars, spellVars, runeVars>>

\* get_match_ids_by_puuid
MatchIdsFetch == SingleFetch("match_ids", "match_ids")

\* get_match_details
MatchDetailsFetch == SingleFetch("match_details", "match")

\* get_match_timeline; the frames of the payload are sorted into the report
MatchTimelineFetch == SingleFetch("match_timeline", "timeline")

\* A participant of a match payload with its seven item slots (0: empty slot)
Participant(champion, kills, items) ==
    [championName |-> champion, kills |-> kills, items |-> items]

\* info.participants of the match payloads
ParticipantPayloads ==
    {<<>>,
     <<Participant(RowText.Ahri, 3, <<1001, 0, 0, 0, 0, 0, 0>>)>>,
     <<Participant(RowText.Ahri, 3, <<1001, 0, 0, 0, 0, 0, 0>>),
       Participant(RowText.Lux, 1, <<0, 0, 0, 0, 0, 0, 4242>>)>>}

\* The data of the item catalog
ItemCatalog == (1001 :> [name |-> ItemText.Boots])

\* Lines 120-129: the filled item slots of a participant, named from item_data
ItemsDetailed(participant, item_data) ==
    LET Filled(item_id) == item_id # 0
        Named(item_id) ==
            [id |-> item_id,
             name |-> IF item_id \in DOMAIN item_data THEN item_data[item_id].name
                      ELSE ItemText.Unknown_Item_ \o StrOfNat(item_id)]
        filled == SelectSeq(participant.items, Filled)
    IN  [i \in DOMAIN filled |-> Named(filled[i])]

\* Lines 117-147: the participants of the report
DetailedParticipants(selected, item_data, simple) ==
    [i \in DOMAIN selected |->
        IF simple
          THEN [championName |-> selected[i].championName, kills |-> selected[i].kills,
                items_detailed |-> ItemsDetailed(selected[i], item_data)]
          ELSE [championName |-> selected[i].championName, kills |-> selected[i].kills,
                items |-> selected[i].items,
                items_detailed |-> ItemsDetailed(selected[i], item_data)]]

\* get_match_participants_full_info lines 71-106: the region, the match fetch, the
\* choice of the participants.
ParticipantsFetch ==
    /\ endpoint = "match_participants" /\ pc = "start"
    /\ region_lower' = Lower(region)
    /\ IF ~ValidateRegionRouting(Lower(region))
         THEN /\ response' = HttpError(400, "InvalidRegion")
              /\ pc' = "done"
              /\ UNCHANGED <<upstream_log, selected_participants>>
         ELSE \E answer \in UpstreamAnswers, participants \in ParticipantPayloads :
                /\ ~Succeeded(answer) => participants = <<>>
                /\ upstream_log' = Logged(Lower(region), "match", answer)
                /\ IF ~Succeeded(answer)
                     THEN /\ response' = Answered(answer)
                          /\ pc' = "done"
                          /\ UNCHANGED selected_participants
                     ELSE IF participants = <<>>
                     THEN /\ response' = HttpError(500, "NoParticipants")
                          /\ pc' = "done"
                          /\ UNCHANGED selected_participants
                     ELSE IF num_participants = -1
                     THEN /\ selected_participants' = participants
                          /\ pc' = "items"
                          /\ UNCHANGED response
                     ELSE IF 0 < num_participants /\ num_participants <= Len(participants)
                     THEN /\ selected_participants' = SubSeq(participants, 1, num_participants)
                          /\ pc' = "items"
                          /\ UNCHANGED response
                     ELSE /\ response' = HttpError(400, "InvalidInput")
                          /\ pc' = "done"
                          /\ UNCHANGED selected_participants
    /\ UNCHANGED <<detailed, found_champion, num_participants, simplified, scoreVars,
                   endpoint, region, singleRest, aggVars>>

\* Lines 108-155: the item catalog fetch and the report.  An error status is raised
\* by raise_for_status as httpx.HTTPStatusError, which neither the inner nor the outer
\* `except httpx.RequestError` catches; a transport error leaves item_data empty.
ParticipantsItems ==
    /\ endpoint = "match_participants" /\ pc = "items"
    /\ \E answer \in AssetAnswers :
         /\ upstream_log' = Logged("data_dragon", "items", answer)
         /\ IF answer # ConnectionError /\ ~Succeeded(answer)
              THEN /\ response' = HttpError(500, "UnhandledException")
                   /\ UNCHANGED result
              ELSE LET item_data == IF Succeeded(answer) THEN ItemCatalog ELSE EmptyMap IN
                   /\ response' = Ok
                   /\ result' =
                        [num_participants |-> Len(selected_participants),
                         participants |->
                             DetailedParticipants(selected_participants, item_data,
                                                  simplified)]
    /\ pc' = "done"
    /\ UNCHANGED <<singleVars, scoreVars, endpoint, region, region_lower, singleRest,
                   match_count, champion_name, match_ids, match_idx, match_status,
                   player_data, match_log, perfVars, spellVars, runeVars>>

RECURSIVE FindChampion(_, _)
\* get_champions lines 72-83: the first entry whose id, name or key equals
\* champion_name ignoring letter case, as <<entry>>, or None.  The id, the name and
\* the key of every entry of Catalog are the same string.
FindChampion(data, name) ==
    IF data = <<>> THEN None
    ELSE IF Lower(Head(data).name) = Lower(name) THEN <<Head(data)>>
    ELSE FindChampion(Tail(data), name)

\* get_champions lines 65-86 and 115-127: the catalog fetch (requests.RequestException
\* covers an error status and a transport error), the lookup by id, name or key
\* ignoring case (the three agree for the entries of Catalog), the basic answers.
ChampionsFetch ==
    /\ endpoint = "champion_info" /\ pc = "start"
    /\ \E answer \in AssetAnswers, data \in CatalogOptions :
         /\ ~Succeeded(answer) => data = <<>>
         /\ upstream_log' = Logged("data_dragon", "champions", answer)
         /\ IF ~Succeeded(answer)
              THEN /\ response' = HttpError(500, "UpstreamUnavailable")
                   /\ pc' = "done"
                   /\ UNCHANGED <<champions_data, found_champion, result>>
              ELSE
              /\ champions_data' = data
              /\ IF champion_name = None
                   THEN /\ response' = IF detailed THEN HttpError(400, "InvalidInput") ELSE Ok
                        /\ result' = IF detailed THEN result
                                      ELSE [detail |-> "all", champion |-> data]
                        /\ pc' = "done"
                        /\ UNCHANGED found_champion
                   ELSE
                   LET found == FindChampion(data, champion_name) IN
                   /\ found_champion' = found
                   /\ IF found = None
                        THEN /\ response' = HttpError(404, "ChampionNotFound")
                             /\ pc' = "done"
                             /\ UNCHANGED result
                        ELSE IF detailed
                        THEN /\ pc' = "detail"
                             /\ UNCHANGED <<response, result>>
                        ELSE /\ response' = Ok
                             /\ result' = [detail |-> "basic", champion |-> found]
                             /\ pc' = "done"
    /\ UNCHANGED <<detailed, num_participants, simplified, selected_participants,
                   endpoint, resolverRest, match_count, champion_name,
                   match_ids, match_idx, match_status, player_data, match_log, perfVars,
                   spellVars, runeVars, requestVars, analysisVars, lookups>>

\* Lines 89-113: the champion-detail fetch.  The detailed report is returned when
\* the payload holds the champion's key; otherwise, and when the fetch fails, the
\* basic entry is returned.
ChampionDetail ==
    /\ endpoint = "champion_info" /\ pc = "detail"
    /\ \E answer \in AssetAnswers, has_key \in BOOLEAN :
         /\ ~Succeeded(answer) => ~has_key
         /\ upstream_log' = Logged("data_dragon", "champion_detail", answer)
         /\ response' = Ok
         /\ result' = [detail |-> IF Succeeded(answer) /\ has_key THEN "detailed" ELSE "basic",
                       champion |-> found_champion]
    /\ pc' = "done"
    /\ UNCHANGED <<singleVars, scoreVars, endpoint, region, region_lower, singleRest,
                   match_count, champion_name, match_ids, match_idx, match_status,
                   player_data, match_log, perfVars, spellVars, runeVars>>

\* ----------------------------------------------- single-resource specification
SingleEndpoints ==
    {"match_ids", "match_details", "match_timeline", "match_participants", "champion_info"}

InitSingle ==
    /\ endpoint \in SingleEndpoints
    /\ pc = "start"
    /\ response = NoResponse
    /\ region \in (IF endpoint = "champion_info" THEN {None} ELSE AggRegionInputs)
    /\ region_lower = None
    /\ summoner_id = None
    /\ puuid \in (IF endpoint = "match_ids" THEN {IdText.P1} ELSE {None})
    /\ platforms = <<>> /\ platform_idx = 1
    /\ last_error = NoError
    /\ summoner_data = "None" /\ ranked_data = "None"
    /\ successful_platform = None
    /\ upstream_log = <<>>
    /\ ScoreIdle
    /\ match_count = 0
    /\ champion_name \in (IF endpoint = "champion_info"
                             THEN {None, ChampText.ZED, ChampText.Nobody} ELSE {None})
    /\ match_ids = <<>> /\ match_idx = 1 /\ match_status = "none"
    /\ player_data = <<>> /\ match_log = <<>> /\ result = EmptyMap
    /\ team_kills = 0 /\ total_games = 0 /\ wins = 0
    /\ champions_played = EmptyMap /\ roles_played = EmptyMap
    /\ kda_values = <<>> /\ kill_participation = <<>> /\ performance_data = <<>>
    /\ spell_combinations = EmptyMap /\ spell_wins = EmptyMap /\ spell_games = EmptyMap
    /\ champion_spells = EmptyMap /\ role_spells = EmptyMap
    /\ rune_data = <<>> /\ primary_trees = EmptyMap /\ secondary_trees = EmptyMap
    /\ keystone_runes = EmptyMap /\ champion_runes = EmptyMap
    /\ champion_order = <<>> /\ keystone_id = Unbound
    /\ detailed \in (IF endpoint = "champion_info" THEN BOOLEAN ELSE {FALSE})
    /\ found_champion = <<>>
    /\ num_participants \in (IF endpoint = "match_participants" THEN {-1, 0, 1, 3} ELSE {-1})
    /\ simplified \in (IF endpoint = "match_participants" THEN BOOLEAN ELSE {FALSE})
    /\ selected_participants = <<>>

NextSingle ==
    \/ MatchIdsFetch
    \/ MatchDetailsFetch
    \/ MatchTimelineFetch
    \/ ParticipantsFetch
    \/ ParticipantsItems
    \/ ChampionsFetch
    \/ ChampionDetail

SpecSingle == InitSingle /\ [][NextSingle]_vars

\* ---------------------------------------------------- single-resource claims
\* An upstream or asset request of the request got no 200
FailedFetches == {i \in DOMAIN upstream_log : upstream_log[i].outcome.status # 200}

\* C27: in the single-resource handlers a request one of whose upstream or asset
\* fetches failed ends with an error response.
C27_NoSilentSwallowing ==
    (endpoint \in SingleEndpoints /\ pc = "done" /\ FailedFetches # {}) =>
        response.status >= 400

\* C28: in the match-ids, match-details, match-timeline and match-participants
\* handlers an upstream 404 is answered with 404 ResourceNotFound and an upstream 403
\* with 403, whether the upstream body is empty or not.
C28_StatusMapping ==
    (endpoint \in SingleEndpoints \ {"champion_info"} /\ pc = "done" /\ upstream_log # <<>>) =>
        /\ upstream_log[1].outcome.status = 404 =>
               (response.status = 404 /\ response.kind = "ResourceNotFound")
        /\ upstream_log[1].outcome.status = 403 => response.status = 403

====
